---------------------------- MODULE Spec2Model ----------------------------
(***************************************************************************)
(* A model of BeebAsm's expression engine (src/src/expression.cpp):        *)
(* LineParser::GetValue, LineParser::EvaluateExpression and the operator   *)
(* handlers LineParser::Eval*.                                             *)
(*                                                                         *)
(* A line is a sequence of one-character strings and m_column an index     *)
(* into it (0-based, as in the source).  Every call of EvaluateExpression  *)
(* is a frame of the call stack `frames`; EvalEval pushes a frame for its  *)
(* nested LineParser.  One action is one step of the driver loop: reading  *)
(* a token, popping and executing one stacked operator, pushing, exiting.  *)
(***************************************************************************)
EXTENDS Integers, Sequences, FiniteSets, TLC

(***************************************************************************)
(* Characters                                                              *)
(***************************************************************************)
LowerChars == <<"a","b","c","d","e","f","g","h","i","j","k","l","m",
                "n","o","p","q","r","s","t","u","v","w","x","y","z">>

UpperChars == <<"A","B","C","D","E","F","G","H","I","J","K","L","M",
                "N","O","P","Q","R","S","T","U","V","W","X","Y","Z">>

DigitChars == <<"0","1","2","3","4","5","6","7","8","9">>

Range(s) == { s[i] : i \in DOMAIN s }

\* Ascii::ToUpper
ToUpper(c) ==
    IF c \in Range(LowerChars)
    THEN UpperChars[CHOOSE i \in DOMAIN LowerChars : LowerChars[i] = c]
    ELSE c

\* Ascii::IsAlpha
IsAlpha(c) == c \in Range(LowerChars) \cup Range(UpperChars)

\* Ascii::IsDigit
IsDigit(c) == c \in Range(DigitChars)

DigitValue(c) == (CHOOSE i \in DOMAIN DigitChars : DigitChars[i] = c) - 1

\* m_line[ i ] for a 0-based index i < m_line.length()
CharAt(line, i) == line[i + 1]

(***************************************************************************)
(* Operator tables                                                         *)
(***************************************************************************)
Op(tok, prec, params, h) ==
    [token |-> tok, precedence |-> prec, parameterCount |-> params, handler |-> h]

\* the NULL handler of the special-case rows
NULL == "NULL"

m_gaBinaryOperatorTable ==
    << Op(<<")">>,          -1, 0, NULL),
       Op(<<"]">>,          -1, 0, NULL),
       Op(<<",">>,          -1, 0, NULL),
       Op(<<"^">>,           7, 0, "EvalPower"),
       Op(<<"*">>,           6, 0, "EvalMultiply"),
       Op(<<"/">>,           6, 0, "EvalDivide"),
       Op(<<"%">>,           6, 0, "EvalMod"),
       Op(<<"D","I","V">>,   6, 0, "EvalDiv"),
       Op(<<"M","O","D">>,   6, 0, "EvalMod"),
       Op(<<"<","<">>,       6, 0, "EvalShiftLeft"),
       Op(<<">",">">>,       6, 0, "EvalShiftRight"),
       Op(<<"+">>,           5, 0, "EvalAdd"),
       Op(<<"-">>,           5, 0, "EvalSubtract"),
       Op(<<"=","=">>,       4, 0, "EvalEqual"),
       Op(<<"=">>,           4, 0, "EvalEqual"),
       Op(<<"<",">">>,       4, 0, "EvalNotEqual"),
       Op(<<"!","=">>,       4, 0, "EvalNotEqual"),
       Op(<<"<","=">>,       4, 0, "EvalLessThanOrEqual"),
       Op(<<">","=">>,       4, 0, "EvalMoreThanOrEqual"),
       Op(<<"<">>,           4, 0, "EvalLessThan"),
       Op(<<">">>,           4, 0, "EvalMoreThan"),
       Op(<<"A","N","D">>,   3, 0, "EvalAnd"),
       Op(<<"O","R">>,       2, 0, "EvalOr"),
       Op(<<"E","O","R">>,   2, 0, "EvalEor") >>

m_gaUnaryOperatorTable ==
    << Op(<<"(">>,                          -1, 0, NULL),
       Op(<<"[">>,                          -1, 0, NULL),
       Op(<<"-">>,                           8, 0, "EvalNegate"),
       Op(<<"+">>,                           8, 0, "EvalPosate"),
       Op(<<"H","I","(">>,                  10, 1, "EvalHi"),
       Op(<<"L","O","(">>,                  10, 1, "EvalLo"),
       Op(<<">">>,                          10, 0, "EvalHi"),
       Op(<<"<">>,                          10, 0, "EvalLo"),
       Op(<<"S","I","N","(">>,              10, 1, "EvalSin"),
       Op(<<"C","O","S","(">>,              10, 1, "EvalCos"),
       Op(<<"T","A","N","(">>,              10, 1, "EvalTan"),
       Op(<<"A","S","N","(">>,              10, 1, "EvalArcSin"),
       Op(<<"A","C","S","(">>,              10, 1, "EvalArcCos"),
       Op(<<"A","T","N","(">>,              10, 1, "EvalArcTan"),
       Op(<<"S","Q","R","(">>,              10, 1, "EvalSqrt"),
       Op(<<"R","A","D","(">>,              10, 1, "EvalDegToRad"),
       Op(<<"D","E","G","(">>,              10, 1, "EvalRadToDeg"),
       Op(<<"I","N","T","(">>,              10, 1, "EvalInt"),
       Op(<<"A","B","S","(">>,              10, 1, "EvalAbs"),
       Op(<<"S","G","N","(">>,              10, 1, "EvalSgn"),
       Op(<<"R","N","D","(">>,              10, 1, "EvalRnd"),
       Op(<<"N","O","T","(">>,              10, 1, "EvalNot"),
       Op(<<"L","O","G","(">>,              10, 1, "EvalLog"),
       Op(<<"L","N","(">>,                  10, 1, "EvalLn"),
       Op(<<"E","X","P","(">>,              10, 1, "EvalExp"),
       Op(<<"T","I","M","E","$","(">>,      10, 1, "EvalTime"),
       Op(<<"S","T","R","$","(">>,          10, 1, "EvalStr"),
       Op(<<"S","T","R","$","~","(">>,      10, 1, "EvalStrHex"),
       Op(<<"V","A","L","(">>,              10, 1, "EvalVal"),
       Op(<<"E","V","A","L","(">>,          10, 1, "EvalEval"),
       Op(<<"L","E","N","(">>,              10, 1, "EvalLen"),
       Op(<<"C","H","R","$","(">>,          10, 1, "EvalChr"),
       Op(<<"A","S","C","(">>,              10, 1, "EvalAsc"),
       Op(<<"M","I","D","$","(">>,          10, 3, "EvalMid"),
       Op(<<"L","E","F","T","$","(">>,      10, 2, "EvalLeft"),
       Op(<<"R","I","G","H","T","$","(">>,  10, 2, "EvalRight"),
       Op(<<"S","T","R","I","N","G","$","(">>, 10, 2, "EvalString"),
       Op(<<"U","P","P","E","R","$","(">>,  10, 1, "EvalUpper"),
       Op(<<"L","O","W","E","R","$","(">>,  10, 1, "EvalLower") >>

\* a mutation of TokenMatches: the characters of the line are compared as they are
TokenMatchesExactly(token, line, column) ==
    \A j \in 0 .. Len(token) - 1 :
        /\ column + j < Len(line)
        /\ token[j + 1] = CharAt(line, column + j)

\* the inner loop of the token search: token[ j ] against ToUpper( m_line[ m_column + j ] )
TokenMatches(token, line, column) ==
    \A j \in 0 .. Len(token) - 1 :
        /\ column + j < Len(line)
        /\ token[j + 1] = ToUpper(CharAt(line, column + j))

\* a mutation of MatchToken: the last row that matches
MatchLastToken(table, line, column) ==
    IF \E i \in DOMAIN table : TokenMatches(table[i].token, line, column)
    THEN CHOOSE i \in DOMAIN table :
            /\ TokenMatches(table[i].token, line, column)
            /\ \A k \in i + 1 .. Len(table) : ~TokenMatches(table[k].token, line, column)
    ELSE 0

\* the outer loop of the token search: the first row that matches, 0 for matchedToken == -1
MatchToken(table, line, column) ==
    IF \E i \in DOMAIN table : TokenMatches(table[i].token, line, column)
    THEN CHOOSE i \in DOMAIN table :
            /\ TokenMatches(table[i].token, line, column)
            /\ \A k \in 1 .. i - 1 : ~TokenMatches(table[k].token, line, column)
    ELSE 0

(***************************************************************************)
(* Values (class Value): a Number or a String.                             *)
(*                                                                         *)
(* A Number the model tracks is an exact fraction num/den, den >= 1, in    *)
(* lowest terms, with |num| and den at most ExactLimit.  A double outside  *)
(* that domain (an irrational result, a huge or non-finite one) is the     *)
(* untracked Number, den = 0: the model knows its type and nothing else.   *)
(* A String is a sequence of characters; the untracked String (text the    *)
(* model does not follow, such as a formatted time) has tracked = FALSE.   *)
(*                                                                         *)
(* The integer coercion is decided at the edges of the 32-bit range, which *)
(* lie outside the tracked domain.  A wide Number is a finite double       *)
(* hi * 2^16 + lo (0 <= lo < 2^16), plus a fraction strictly between 0 and *)
(* 1 when frac is set: wide = <<hi, lo, frac>>.  NaN is the double that is *)
(* not a number.  The arithmetic on fractions treats a wide Number and NaN *)
(* as it treats the untracked Number.                                      *)
(***************************************************************************)
ExactLimit == 30000

NumberValue == "Number"
StringValue == "String"

AbsInt(n) == IF n < 0 THEN -n ELSE n

RECURSIVE GCD(_, _)
GCD(a, b) == IF b = 0 THEN a ELSE GCD(b, a % b)

UntrackedNumber ==
    [type |-> NumberValue, num |-> 0, den |-> 0, str |-> <<>>, tracked |-> FALSE,
     wide |-> <<>>]

UntrackedString ==
    [type |-> StringValue, num |-> 0, den |-> 1, str |-> <<>>, tracked |-> FALSE,
     wide |-> <<>>]

\* Value(double): the fraction n/d (d # 0) in lowest terms; beyond ExactLimit
\* an integer is kept as a wide Number and a fraction is not tracked
Num(n, d) ==
    LET g  == GCD(AbsInt(n), AbsInt(d))
        nn == IF d < 0 THEN -(n \div g) ELSE n \div g
        dd == AbsInt(d) \div g
    IN  IF dd = 1 /\ AbsInt(nn) > ExactLimit
        THEN [UntrackedNumber EXCEPT !.wide = << nn \div 65536, nn % 65536, FALSE >>]
        ELSE IF AbsInt(nn) > ExactLimit \/ dd > ExactLimit
        THEN UntrackedNumber
        ELSE [type |-> NumberValue, num |-> nn, den |-> dd, str |-> <<>>, tracked |-> TRUE,
              wide |-> <<>>]

IntVal(n) == Num(n, 1)

\* Value(String)
Str(s) ==
    [type |-> StringValue, num |-> 0, den |-> 1, str |-> s, tracked |-> TRUE, wide |-> <<>>]

\* the double hi * 2^16 + lo (+ a fraction when frac): a tracked integer when
\* it is one, a wide Number otherwise
Wide(hi, lo, frac) ==
    IF ~frac /\ hi \in {-1, 0} /\ hi * 65536 + lo >= -ExactLimit /\ hi * 65536 + lo <= ExactLimit
    THEN IntVal(hi * 65536 + lo)
    ELSE [UntrackedNumber EXCEPT !.wide = << hi, lo, frac >>]

\* the double NaN
NaN == [UntrackedNumber EXCEPT !.wide = << "NaN" >>]

IsWide(v) == Len(v.wide) = 3

\* a Number whose value the model knows
Known(v) == v.tracked \/ v.wide # <<>>

IsInteger(v) == v.tracked /\ v.den = 1

RAdd(x, y) == Num(x.num * y.den + y.num * x.den, x.den * y.den)
RSub(x, y) == Num(x.num * y.den - y.num * x.den, x.den * y.den)
RMul(x, y) == Num(x.num * y.num, x.den * y.den)
RDiv(x, y) == Num(x.num * y.den, x.den * y.num)
RNeg(x)    == Num(-x.num, x.den)
RLess(x, y) == x.num * y.den < y.num * x.den

\* static_cast<int>( double ): truncation toward zero
Truncate(x) == IF x.num < 0 THEN -((-x.num) \div x.den) ELSE x.num \div x.den

\* the printable ASCII characters 32 to 95 and 97 to 126, in order
AsciiLow ==
    <<" ","!","\"","#","$","%","&","'","(",")","*","+",",","-",".","/",
      "0","1","2","3","4","5","6","7","8","9",":",";","<","=",">","?",
      "@","A","B","C","D","E","F","G","H","I","J","K","L","M","N","O",
      "P","Q","R","S","T","U","V","W","X","Y","Z","[","\\","]","^","_">>

AsciiHigh ==
    <<"a","b","c","d","e","f","g","h","i","j","k","l","m","n","o",
      "p","q","r","s","t","u","v","w","x","y","z","{","|","}","~">>

\* the bytes 0 to 31, by name
AsciiControl ==
    <<"x00","x01","x02","x03","x04","x05","x06","x07","x08","x09","x0A","x0B",
      "x0C","x0D","x0E","x0F","x10","x11","x12","x13","x14","x15","x16","x17",
      "x18","x19","x1A","x1B","x1C","x1D","x1E","x1F">>

\* the byte 96, by name
AsciiGrave == "x60"

\* the bytes 127 to 255, by name
AsciiUpper ==
    <<"x7F","x80","x81","x82","x83","x84","x85","x86","x87","x88","x89","x8A",
      "x8B","x8C","x8D","x8E","x8F","x90","x91","x92","x93","x94","x95","x96",
      "x97","x98","x99","x9A","x9B","x9C","x9D","x9E","x9F","xA0","xA1","xA2",
      "xA3","xA4","xA5","xA6","xA7","xA8","xA9","xAA","xAB","xAC","xAD","xAE",
      "xAF","xB0","xB1","xB2","xB3","xB4","xB5","xB6","xB7","xB8","xB9","xBA",
      "xBB","xBC","xBD","xBE","xBF","xC0","xC1","xC2","xC3","xC4","xC5","xC6",
      "xC7","xC8","xC9","xCA","xCB","xCC","xCD","xCE","xCF","xD0","xD1","xD2",
      "xD3","xD4","xD5","xD6","xD7","xD8","xD9","xDA","xDB","xDC","xDD","xDE",
      "xDF","xE0","xE1","xE2","xE3","xE4","xE5","xE6","xE7","xE8","xE9","xEA",
      "xEB","xEC","xED","xEE","xEF","xF0","xF1","xF2","xF3","xF4","xF5","xF6",
      "xF7","xF8","xF9","xFA","xFB","xFC","xFD","xFE","xFF">>

\* static_cast<unsigned char>( c )
AsciiCode(c) ==
    IF c \in Range(AsciiLow)
    THEN 31 + (CHOOSE i \in DOMAIN AsciiLow : AsciiLow[i] = c)
    ELSE IF c \in Range(AsciiHigh)
    THEN 96 + (CHOOSE i \in DOMAIN AsciiHigh : AsciiHigh[i] = c)
    ELSE IF c \in Range(AsciiControl)
    THEN (CHOOSE i \in DOMAIN AsciiControl : AsciiControl[i] = c) - 1
    ELSE IF c = AsciiGrave THEN 96
    ELSE 126 + (CHOOSE i \in DOMAIN AsciiUpper : AsciiUpper[i] = c)

\* char buffer = ascii, for ascii in 0 to 255
AsciiChar(ascii) ==
    IF ascii < 32 THEN AsciiControl[ascii + 1]
    ELSE IF ascii < 96 THEN AsciiLow[ascii - 31]
    ELSE IF ascii = 96 THEN AsciiGrave
    ELSE IF ascii < 127 THEN AsciiHigh[ascii - 96]
    ELSE AsciiUpper[ascii - 126]

\* String's comparison: lexicographic over the bytes; -1, 0 or 1
RECURSIVE CompareText(_, _)
CompareText(s, t) ==
    IF s = <<>> /\ t = <<>> THEN 0
    ELSE IF s = <<>> THEN -1
    ELSE IF t = <<>> THEN 1
    ELSE IF Head(s) = Head(t) THEN CompareText(Tail(s), Tail(t))
    ELSE IF AsciiCode(Head(s)) < AsciiCode(Head(t)) THEN -1 ELSE 1

\* Value::Compare on two tracked values of one type
Compare(a, b) ==
    IF a.type = NumberValue
    THEN IF RLess(a, b) THEN -1 ELSE IF RLess(b, a) THEN 1 ELSE 0
    ELSE CompareText(a.str, b.str)

(***************************************************************************)
(* Operator handlers.                                                      *)
(*                                                                         *)
(* A handler reads and writes the value stack of its parser and the        *)
(* process-wide errno.  It is modelled as the set of its possible outcomes *)
(* [vs, errno, error, eval]: the value stack and errno it leaves, the      *)
(* exception it throws ("" for none), and whether it asks for a nested     *)
(* evaluation (EvalEval).  The set has one element unless the handler      *)
(* draws a random number or depends on an untracked value.                 *)
(***************************************************************************)
EDOM    == "EDOM"
ERANGE  == "ERANGE"
NoErrno == "0"

ErrnoValues == {NoErrno, EDOM, ERANGE}

Ok(vs, en)       == [vs |-> vs, errno |-> en, error |-> "", eval |-> FALSE]
Throw(e, vs, en) == [vs |-> vs, errno |-> en, error |-> e,  eval |-> FALSE]

\* m_valueStack[ m_valueStackPtr - 1 ] and m_valueStack[ m_valueStackPtr - 2 ]
Top(vs)    == vs[Len(vs)]
Second(vs) == vs[Len(vs) - 1]

\* m_valueStack[ m_valueStackPtr - 1 ] = v
SetTop(vs, v) == [vs EXCEPT ![Len(vs)] = v]

\* a mutation of SetSecondAndPop: the result is stored and the pointer is left
\* where it was
SetSecondWithoutPop(vs, v) == [vs EXCEPT ![Len(vs) - 1] = v]

\* m_valueStack[ m_valueStackPtr - 2 ] = v; m_valueStackPtr--
SetSecondAndPop(vs, v) == Append(SubSeq(vs, 1, Len(vs) - 2), v)

\* StackTopTwoValues: the exception it throws, "" when it returns the pair
StackTopTwoValues(vs) ==
    IF Len(vs) < 2 THEN "MissingValue"
    ELSE IF Second(vs).type # Top(vs).type THEN "TypeMismatch"
    ELSE ""

\* StackTopString
StackTopString(vs) ==
    IF Len(vs) < 1 THEN "MissingValue"
    ELSE IF Top(vs).type # StringValue THEN "TypeMismatch"
    ELSE ""

\* StackTopNumber
StackTopNumber(vs) ==
    IF Len(vs) < 1 THEN "MissingValue"
    ELSE IF Top(vs).type # NumberValue THEN "TypeMismatch"
    ELSE ""

\* StackTopTwoNumbers
StackTopTwoNumbers(vs) ==
    IF Len(vs) < 2 THEN "MissingValue"
    ELSE IF Second(vs).type # NumberValue \/ Top(vs).type # NumberValue THEN "TypeMismatch"
    ELSE ""

\* the limits of int
INT_MAX == 2147483647
INT_MIN == -INT_MAX - 1

\* value < INT_MIN, value > UINT_MAX and value <= INT_MAX on a wide Number
BelowIntMin(w)  == w[1] < -32768
AboveUIntMax(w) == w[1] > 65535 \/ (w[1] = 65535 /\ w[2] = 65535 /\ w[3])
UpToIntMax(w)   == w[1] < 32767 \/ (w[1] = 32767 /\ (w[2] < 65535 \/ ~w[3]))

\* static_cast<int>( value ) for INT_MIN <= value <= INT_MAX: toward zero
CastToInt(w) == w[1] * 65536 + w[2] + (IF w[1] < 0 /\ w[3] THEN 1 ELSE 0)

\* static_cast<unsigned int>( value ) for INT_MAX < value <= UINT_MAX, returned
\* as int: the unsigned bit pattern read as a signed int
CastToUnsignedInt(w) ==
    IF w[1] >= 32768 THEN (w[1] - 65536) * 65536 + w[2] ELSE w[1] * 65536 + w[2]

\* the cast of NaN to unsigned int is undefined: the build may give any int
\* (the model takes these)
UndefinedInts == { INT_MIN, -1, 0, INT_MAX }

Converted(n) == [error |-> "", int |-> n]

\* ConvertDoubleToInt on a Number the model knows: the ways it can end.  NaN
\* fails neither comparison of the range test, nor value <= INT_MAX.
ConvertDoubleToInt(v) ==
    IF v.tracked THEN { Converted(Truncate(v)) }
    ELSE IF v = NaN THEN { Converted(n) : n \in UndefinedInts }
    ELSE IF BelowIntMin(v.wide) \/ AboveUIntMax(v.wide)
    THEN { [error |-> "OutOfIntegerRange", int |-> 0] }
    ELSE IF UpToIntMax(v.wide) THEN { Converted(CastToInt(v.wide)) }
    ELSE { Converted(CastToUnsignedInt(v.wide)) }

\* StackTopTwoInts on two Numbers the model knows
StackTopTwoInts(vs) ==
    { [error  |-> IF x.error # "" THEN x.error ELSE y.error,
       first  |-> x.int,
       second |-> y.int] :
        x \in ConvertDoubleToInt(Second(vs)), y \in ConvertDoubleToInt(Top(vs)) }

\* static_cast< double >( int )
IntResult(n) ==
    IF n < -ExactLimit \/ n > ExactLimit THEN Wide(n \div 65536, n % 65536, FALSE)
    ELSE IntVal(n)

\* a handler that read an untracked operand: the result is an untracked value,
\* or one of the exceptions the handler can throw on some operand
UntrackedOutcomes(vs, en, result, errors, errnos) ==
    { Ok(result, e) : e \in errnos } \cup { Throw(x, vs, e) : x \in errors, e \in errnos }

\* a handler on two numbers whose control flow does not depend on them
TwoNumbers(vs, en, F(_, _)) ==
    LET e == StackTopTwoNumbers(vs)
        a == Second(vs)
        b == Top(vs)
    IN  IF e # "" THEN { Throw(e, vs, en) }
        ELSE IF ~a.tracked \/ ~b.tracked
        THEN { Ok(SetSecondAndPop(vs, UntrackedNumber), en) }
        ELSE { Ok(SetSecondAndPop(vs, F(a, b)), en) }

\* what an operation on ints gives: an int, or the end of the process by an
\* arithmetic trap (reported as the pseudo-exception ArithmeticTrap)
Gives(n) == [int |-> n, trap |-> FALSE]
Trap     == [int |-> 0, trap |-> TRUE]

\* a handler on StackTopTwoInts, with the divisor test of EvalDiv and EvalMod;
\* F gives the ways the operation on the two ints can end
TwoInts(vs, en, F(_, _), zeroTest) ==
    LET e == StackTopTwoNumbers(vs)
        a == Second(vs)
        b == Top(vs)
    IN  IF e # "" THEN { Throw(e, vs, en) }
        ELSE IF ~Known(a) \/ ~Known(b)
        THEN UntrackedOutcomes(vs, en, SetSecondAndPop(vs, UntrackedNumber),
                 {"OutOfIntegerRange"} \cup (IF zeroTest THEN {"DivisionByZero"} ELSE {}),
                 {en})
        ELSE UNION { IF values.error # "" THEN { Throw(values.error, vs, en) }
                     ELSE IF zeroTest /\ values.second = 0
                     THEN { Throw("DivisionByZero", vs, en) }
                     ELSE { IF r.trap THEN Throw("ArithmeticTrap", vs, en)
                            ELSE Ok(SetSecondAndPop(vs, IntResult(r.int)), en) :
                              r \in F(values.first, values.second) } :
                     values \in StackTopTwoInts(vs) }

\* a Number the model knows to be an integer, its halves, and the sum of two
IsWhole(v) == IsInteger(v) \/ (IsWide(v) /\ ~v.wide[3])

Halves(v) == IF v.tracked THEN << v.num \div 65536, v.num % 65536 >> ELSE v.wide

WholeSum(a, b) ==
    LET x == Halves(a)
        y == Halves(b)
    IN  Wide(x[1] + y[1] + ((x[2] + y[2]) \div 65536), (x[2] + y[2]) % 65536, FALSE)

\* a + for Numbers only
EvalAddNumbers(vs, en) == TwoNumbers(vs, en, RAdd)

EvalAdd(vs, en) ==
    LET e == StackTopTwoValues(vs)
        a == Second(vs)
        b == Top(vs)
    IN  IF e # "" THEN { Throw(e, vs, en) }
        ELSE IF a.type = NumberValue
        THEN { Ok(SetSecondAndPop(vs, IF a.tracked /\ b.tracked THEN RAdd(a, b)
                                      ELSE IF IsWhole(a) /\ IsWhole(b) THEN WholeSum(a, b)
                                      ELSE UntrackedNumber), en) }
        ELSE { Ok(SetSecondAndPop(vs, IF a.tracked /\ b.tracked THEN Str(a.str \o b.str)
                                                                ELSE UntrackedString), en) }

EvalSubtract(vs, en) == TwoNumbers(vs, en, RSub)

EvalMultiply(vs, en) == TwoNumbers(vs, en, RMul)

EvalDivide(vs, en) ==
    LET e == StackTopTwoNumbers(vs)
        a == Second(vs)
        b == Top(vs)
    IN  IF e # "" THEN { Throw(e, vs, en) }
        ELSE IF ~b.tracked
        THEN UntrackedOutcomes(vs, en, SetSecondAndPop(vs, UntrackedNumber),
                               {"DivisionByZero"}, {en})
        ELSE IF b.num = 0 THEN { Throw("DivisionByZero", vs, en) }
        ELSE IF ~a.tracked THEN { Ok(SetSecondAndPop(vs, UntrackedNumber), en) }
        ELSE { Ok(SetSecondAndPop(vs, RDiv(a, b)), en) }

\* x^k for an integer k >= 0 by repeated multiplication, untracked once it
\* leaves the tracked domain
RECURSIVE PowAcc(_, _, _)
PowAcc(acc, x, k) ==
    IF k = 0 \/ ~acc.tracked THEN acc ELSE PowAcc(RMul(acc, x), x, k - 1)

\* pow( a, b ) on tracked numbers: the set of [val, errno] it can give, errno
\* being the value pow stores there (NoErrno when it stores none).  A result
\* beyond the tracked domain is untracked; whether it also overflows a double
\* the model cannot tell.
Pow(a, b) ==
    IF b.num = 0 \/ (a.num = 1 /\ a.den = 1)
    THEN { [val |-> IntVal(1), errno |-> NoErrno] }
    ELSE IF a.num = 0
    THEN IF b.num > 0 THEN { [val |-> IntVal(0), errno |-> NoErrno] }
         ELSE { [val |-> UntrackedNumber, errno |-> ERANGE] }
    ELSE IF b.den # 1
    THEN IF a.num < 0 THEN { [val |-> UntrackedNumber, errno |-> EDOM] }
         ELSE { [val |-> UntrackedNumber, errno |-> NoErrno] }
    ELSE IF a.num = -1 /\ a.den = 1
    THEN { [val |-> IntVal(IF b.num % 2 = 0 THEN 1 ELSE -1), errno |-> NoErrno] }
    ELSE LET p == PowAcc(IntVal(1), IF b.num > 0 THEN a ELSE RDiv(IntVal(1), a), AbsInt(b.num))
         IN  IF p.tracked THEN { [val |-> p, errno |-> NoErrno] }
             ELSE { [val |-> UntrackedNumber, errno |-> NoErrno],
                    [val |-> UntrackedNumber, errno |-> ERANGE] }

\* the value is stored and the pointer moved before errno is looked at, and
\* errno is not cleared before pow is called
EvalPower(vs, en) ==
    LET e == StackTopTwoNumbers(vs)
        a == Second(vs)
        b == Top(vs)
        results == IF a.tracked /\ b.tracked THEN Pow(a, b)
                   ELSE { [val |-> UntrackedNumber, errno |-> x] : x \in ErrnoValues }
    IN  IF e # "" THEN { Throw(e, vs, en) }
        ELSE { LET en2 == IF r.errno = NoErrno THEN en ELSE r.errno
                   vs2 == SetSecondAndPop(vs, r.val)
               IN  IF en2 = ERANGE THEN Throw("NumberTooBig", vs2, en2)
                   ELSE IF en2 = EDOM THEN Throw("IllegalOperation", vs2, en2)
                   ELSE Ok(vs2, en2)
               : r \in results }

\* C++ integer division and remainder: truncated toward zero
\* (for b # 0, and not INT_MIN by -1)
CDiv(a, b) ==
    IF b = INT_MIN THEN (IF a = INT_MIN THEN 1 ELSE 0)
    ELSE LET floored   == a \div AbsInt(b)
             truncated == IF a < 0 /\ a % AbsInt(b) # 0 THEN floored + 1 ELSE floored
         IN  IF b < 0 THEN -truncated ELSE truncated

CMod(a, b) == a - CDiv(a, b) * b

\* INT_MIN / -1 and INT_MIN % -1 overflow an int, which is undefined: the
\* division instruction traps, or gives the wrapped quotient and remainder
Overflows(a, b) == a = INT_MIN /\ b = -1

EvalDiv(vs, en) ==
    TwoInts(vs, en, LAMBDA a, b : IF Overflows(a, b) THEN { Trap, Gives(INT_MIN) }
                                  ELSE { Gives(CDiv(a, b)) }, TRUE)

EvalMod(vs, en) ==
    TwoInts(vs, en, LAMBDA a, b : IF Overflows(a, b) THEN { Trap, Gives(0) }
                                  ELSE { Gives(CMod(a, b)) }, TRUE)

\* one step of a 32-bit left shift on the halves <<hi, lo>> of an unsigned int
ShiftLeftOne(w) == << (w[1] * 2 + (w[2] * 2) \div 65536) % 65536, (w[2] * 2) % 65536 >>

RECURSIVE ShiftLeftBy(_, _)
ShiftLeftBy(w, shift) == IF shift = 0 THEN w ELSE ShiftLeftBy(ShiftLeftOne(w), shift - 1)

\* static_cast<int>(static_cast<unsigned int>(value) << shift), 0 < shift <= 31
LogicalShiftLeft(value, shift) ==
    LET w == ShiftLeftBy(<< (value \div 65536) % 65536, value % 65536 >>, shift)
    IN  (IF w[1] >= 32768 THEN w[1] - 65536 ELSE w[1]) * 65536 + w[2]

\* a right shift that does not refill the vacated bits
RECURSIVE UnsignedShiftRight(_, _)
UnsignedShiftRight(value, shift) ==
    IF shift = 0 THEN value
    ELSE UnsignedShiftRight(IF value < 0 THEN (value - INT_MIN) \div 2 + 1073741824
                            ELSE value \div 2, shift - 1)

\* unsigned shift right with the vacated bits refilled with ones for a negative
\* value: each step halves the value rounding toward minus infinity
RECURSIVE ArithmeticShiftRight(_, _)
ArithmeticShiftRight(value, shift) ==
    IF shift = 0 THEN value ELSE ArithmeticShiftRight(value \div 2, shift - 1)

ShiftLeftResult(val, shift) ==
    IF shift > 31 \/ shift < -31 THEN 0
    ELSE IF shift > 0 THEN LogicalShiftLeft(val, shift)
    ELSE IF shift = 0 THEN val
    ELSE ArithmeticShiftRight(val, -shift)

ShiftRightResult(val, shift) ==
    IF shift > 31 \/ shift < -31 THEN 0
    ELSE IF shift > 0 THEN ArithmeticShiftRight(val, shift)
    ELSE IF shift = 0 THEN val
    ELSE LogicalShiftLeft(val, -shift)

\* the results of the int handlers are cast back to double
IntShiftLeft(a, b)  == ShiftLeftResult(a, b)
IntShiftRight(a, b) == ShiftRightResult(a, b)

EvalShiftLeft(vs, en)  == TwoInts(vs, en, LAMBDA a, b : { Gives(IntShiftLeft(a, b)) }, FALSE)

EvalShiftRight(vs, en) == TwoInts(vs, en, LAMBDA a, b : { Gives(IntShiftRight(a, b)) }, FALSE)

\* the bitwise operators of two's-complement ints
RECURSIVE BitAnd(_, _)
BitAnd(a, b) ==
    IF a = 0 \/ b = 0 THEN 0
    ELSE IF a = -1 THEN b
    ELSE IF b = -1 THEN a
    ELSE (IF a % 2 = 1 /\ b % 2 = 1 THEN 1 ELSE 0) + 2 * BitAnd(a \div 2, b \div 2)

RECURSIVE BitOr(_, _)
BitOr(a, b) ==
    IF a = 0 THEN b
    ELSE IF b = 0 THEN a
    ELSE IF a = -1 \/ b = -1 THEN -1
    ELSE (IF a % 2 = 1 \/ b % 2 = 1 THEN 1 ELSE 0) + 2 * BitOr(a \div 2, b \div 2)

RECURSIVE BitXor(_, _)
BitXor(a, b) ==
    IF a = 0 THEN b
    ELSE IF b = 0 THEN a
    ELSE IF a = -1 THEN -1 - b
    ELSE IF b = -1 THEN -1 - a
    ELSE (((a % 2) + (b % 2)) % 2) + 2 * BitXor(a \div 2, b \div 2)

BitNot(a) == -1 - a

EvalAnd(vs, en) == TwoInts(vs, en, LAMBDA a, b : { Gives(BitAnd(a, b)) }, FALSE)

EvalOr(vs, en)  == TwoInts(vs, en, LAMBDA a, b : { Gives(BitOr(a, b)) }, FALSE)

EvalEor(vs, en) == TwoInts(vs, en, LAMBDA a, b : { Gives(BitXor(a, b)) }, FALSE)

\* the comparison handlers: (Value::Compare(first, second) REL 0) ? -1 : 0
Comparison(vs, en, Holds(_)) ==
    LET e == StackTopTwoValues(vs)
        a == Second(vs)
        b == Top(vs)
    IN  IF e # "" THEN { Throw(e, vs, en) }
        ELSE IF ~a.tracked \/ ~b.tracked
        THEN { Ok(SetSecondAndPop(vs, IntVal(-1)), en), Ok(SetSecondAndPop(vs, IntVal(0)), en) }
        ELSE { Ok(SetSecondAndPop(vs, IF Holds(Compare(a, b)) THEN IntVal(-1) ELSE IntVal(0)), en) }

EvalEqual(vs, en)           == Comparison(vs, en, LAMBDA c : c = 0)

EvalNotEqual(vs, en)        == Comparison(vs, en, LAMBDA c : c # 0)

EvalLessThanOrEqual(vs, en) == Comparison(vs, en, LAMBDA c : c <= 0)

\* a >= that is false of equal values
EvalMoreThanStrictly(vs, en) == Comparison(vs, en, LAMBDA c : c > 0)

EvalMoreThanOrEqual(vs, en) == Comparison(vs, en, LAMBDA c : c >= 0)

EvalLessThan(vs, en)        == Comparison(vs, en, LAMBDA c : c < 0)

EvalMoreThan(vs, en)        == Comparison(vs, en, LAMBDA c : c > 0)

\* a handler on StackTopNumber whose control flow does not depend on the number
OneNumber(vs, en, F(_)) ==
    LET e == StackTopNumber(vs)
    IN  IF e # "" THEN { Throw(e, vs, en) }
        ELSE IF ~Top(vs).tracked THEN { Ok(SetTop(vs, UntrackedNumber), en) }
        ELSE { Ok(SetTop(vs, F(Top(vs))), en) }

\* a handler on StackTopInt
OneInt(vs, en, F(_)) ==
    LET e == StackTopNumber(vs)
    IN  IF e # "" THEN { Throw(e, vs, en) }
        ELSE IF ~Known(Top(vs))
        THEN UntrackedOutcomes(vs, en, SetTop(vs, UntrackedNumber), {"OutOfIntegerRange"}, {en})
        ELSE { IF value.error # "" THEN Throw(value.error, vs, en)
               ELSE Ok(SetTop(vs, IntResult(F(value.int))), en) :
                 value \in ConvertDoubleToInt(Top(vs)) }

\* -x for a wide Number x
Negated(w) ==
    IF w[3] THEN Wide(-w[1] - 1, 65535 - w[2], TRUE)
    ELSE IF w[2] = 0 THEN Wide(-w[1], 0, FALSE)
    ELSE Wide(-w[1] - 1, 65536 - w[2], FALSE)

EvalNegate(vs, en) ==
    IF Len(vs) >= 1 /\ Top(vs).type = NumberValue /\ IsWide(Top(vs))
    THEN { Ok(SetTop(vs, Negated(Top(vs).wide)), en) }
    ELSE OneNumber(vs, en, RNeg)

EvalNot(vs, en) == OneInt(vs, en, BitNot)

\* only the stack depth is tested: the operand may be a String
EvalPosate(vs, en) ==
    IF Len(vs) < 1 THEN { Throw("MissingValue", vs, en) } ELSE { Ok(vs, en) }

EvalLo(vs, en) == OneInt(vs, en, LAMBDA x : BitAnd(x, 255))

EvalHi(vs, en) == OneInt(vs, en, LAMBDA x : BitAnd(x, 65535) \div 256)

EvalInt(vs, en) == OneInt(vs, en, LAMBDA x : x)

EvalAbs(vs, en) == OneNumber(vs, en, LAMBDA x : IF x.num < 0 THEN RNeg(x) ELSE x)

EvalSgn(vs, en) ==
    OneNumber(vs, en, LAMBDA x : IF x.num < 0 THEN IntVal(-1)
                                 ELSE IF x.num > 0 THEN IntVal(1) ELSE IntVal(0))

\* A handler that stores the result of a <cmath> function on StackTopNumber and
\* then looks at errno.  `results` is what the function can give on a tracked
\* operand, as [val, errno] (NoErrno: it stores none); `checked` are the errno
\* values the handler throws IllegalOperation on.  errno is not cleared first.
MathFunction(vs, en, Results(_), checked) ==
    LET e == StackTopNumber(vs)
        rs == IF Top(vs).tracked THEN Results(Top(vs))
              ELSE { [val |-> UntrackedNumber, errno |-> x] : x \in ErrnoValues }
    IN  IF e # "" THEN { Throw(e, vs, en) }
        ELSE { LET en2 == IF r.errno = NoErrno THEN en ELSE r.errno
                   vs2 == SetTop(vs, r.val)
               IN  IF en2 \in checked THEN Throw("IllegalOperation", vs2, en2)
                   ELSE Ok(vs2, en2)
               : r \in rs }

Exactly(v)      == { [val |-> v, errno |-> NoErrno] }
Inexact         == { [val |-> UntrackedNumber, errno |-> NoErrno] }
Fails(en)       == { [val |-> UntrackedNumber, errno |-> en] }

\* x = 0 is the one argument whose image the model tracks
ZeroOrInexact(x, atZero) == IF x.num = 0 THEN Exactly(IntVal(atZero)) ELSE Inexact

EvalSin(vs, en) == MathFunction(vs, en, LAMBDA x : ZeroOrInexact(x, 0), {})

EvalCos(vs, en) == MathFunction(vs, en, LAMBDA x : ZeroOrInexact(x, 1), {})

EvalTan(vs, en) == MathFunction(vs, en, LAMBDA x : ZeroOrInexact(x, 0), {})

OutsideUnit(x) == RLess(IntVal(1), x) \/ RLess(x, IntVal(-1))

EvalArcSin(vs, en) ==
    MathFunction(vs, en, LAMBDA x : IF OutsideUnit(x) THEN Fails(EDOM)
                                    ELSE ZeroOrInexact(x, 0), {EDOM})

EvalArcCos(vs, en) ==
    MathFunction(vs, en, LAMBDA x : IF OutsideUnit(x) THEN Fails(EDOM)
                                    ELSE IF x = IntVal(1) THEN Exactly(IntVal(0))
                                    ELSE Inexact, {EDOM})

EvalArcTan(vs, en) == MathFunction(vs, en, LAMBDA x : ZeroOrInexact(x, 0), {EDOM})

\* log10 and log: a domain error below 0, a pole error at 0
Logarithm(x) ==
    IF x.num < 0 THEN Fails(EDOM)
    ELSE IF x.num = 0 THEN Fails(ERANGE)
    ELSE IF x = IntVal(1) THEN Exactly(IntVal(0))
    ELSE Inexact

EvalLog(vs, en) == MathFunction(vs, en, Logarithm, {EDOM, ERANGE})

EvalLn(vs, en) == MathFunction(vs, en, Logarithm, {EDOM, ERANGE})

\* exp overflows a double above 709.78 and underflows below -745.13; between
\* the integers around each threshold the model cannot tell
EvalExp(vs, en) ==
    MathFunction(vs, en,
        LAMBDA x : IF x.num = 0 THEN Exactly(IntVal(1))
                   ELSE IF ~RLess(x, IntVal(710)) \/ ~RLess(IntVal(-746), x) THEN Fails(ERANGE)
                   ELSE IF RLess(IntVal(709), x) \/ RLess(x, IntVal(-708))
                   THEN Inexact \cup Fails(ERANGE)
                   ELSE Inexact,
        {ERANGE})

\* the integer square root of a perfect square, -1 for any other number
ExactRoot(n) ==
    IF \E r \in 0 .. 200 : r * r = n THEN CHOOSE r \in 0 .. 200 : r * r = n ELSE -1

EvalSqrt(vs, en) ==
    MathFunction(vs, en,
        LAMBDA x : IF x.num < 0 THEN Fails(EDOM)
                   ELSE IF ExactRoot(x.num) >= 0 /\ ExactRoot(x.den) >= 0
                   THEN Exactly(Num(ExactRoot(x.num), ExactRoot(x.den)))
                   ELSE Inexact,
        {EDOM})

\* x * const_pi / 180.0 and x * 180.0 / const_pi
EvalDegToRad(vs, en) ==
    OneNumber(vs, en, LAMBDA x : IF x.num = 0 THEN x ELSE UntrackedNumber)

EvalRadToDeg(vs, en) ==
    OneNumber(vs, en, LAMBDA x : IF x.num = 0 THEN x ELSE UntrackedNumber)

\* beebasm_rand() / ( BEEBASM_RAND_MAX + 1.0 ) for every value beebasm_rand()
\* can return, 0 to BEEBASM_RAND_MAX (scaled down)
BEEBASM_RAND_MAX == 3

RandFractions == { Num(k, BEEBASM_RAND_MAX + 1) : k \in 0 .. BEEBASM_RAND_MAX }

\* val < 1.0f on a Number the model knows (every comparison with NaN is false)
LessThanOne(val) ==
    IF val.tracked THEN RLess(val, IntVal(1))
    ELSE IsWide(val) /\ (val.wide[1] < 0 \/ (val.wide[1] = 0 /\ val.wide[2] = 0))

\* r * val for a fraction r = k / d in [0, 1): untracked when the model cannot
\* tell the product
Scaled(r, val) ==
    IF val.tracked THEN RMul(r, val)
    ELSE IF val = NaN THEN NaN
    ELSE IF val.wide[3] THEN UntrackedNumber
    ELSE LET high  == val.wide[1] * r.num
             rest  == (high % r.den) * 65536 + val.wide[2] * r.num
             whole == rest \div r.den
         IN  Wide((high \div r.den) + (whole \div 65536), whole % 65536, rest % r.den # 0)

EvalRnd(vs, en) ==
    LET e == StackTopNumber(vs)
        val == Top(vs)
    IN  IF e # "" THEN { Throw(e, vs, en) }
        ELSE IF ~Known(val)
        THEN UntrackedOutcomes(vs, en, SetTop(vs, UntrackedNumber),
                               {"IllegalOperation", "OutOfIntegerRange"}, {en})
        ELSE IF LessThanOne(val) THEN { Throw("IllegalOperation", vs, en) }
        ELSE IF val = IntVal(1) THEN { Ok(SetTop(vs, r), en) : r \in RandFractions }
        ELSE UNION { LET p == Scaled(r, val)
                     IN  IF ~Known(p)
                         THEN UntrackedOutcomes(vs, en, SetTop(vs, UntrackedNumber),
                                                {"OutOfIntegerRange"}, {en})
                         ELSE { IF value.error # "" THEN Throw(value.error, vs, en)
                                ELSE Ok(SetTop(vs, IntResult(value.int)), en) :
                                  value \in ConvertDoubleToInt(p) }
                     : r \in RandFractions }

(***************************************************************************)
(* Text helpers                                                            *)
(***************************************************************************)
HexChars == <<"0","1","2","3","4","5","6","7","8","9","A","B","C","D","E","F">>

IsHexDigit(c) == ToUpper(c) \in Range(HexChars)

HexValue(c) == (CHOOSE i \in DOMAIN HexChars : HexChars[i] = ToUpper(c)) - 1

\* the text of n >= 0 in the given base
RECURSIVE NaturalText(_, _)
NaturalText(n, base) ==
    IF n < base THEN << HexChars[n + 1] >>
    ELSE Append(NaturalText(n \div base, base), HexChars[(n % base) + 1])

DecimalText(n) == IF n < 0 THEN <<"-">> \o NaturalText(-n, 10) ELSE NaturalText(n, 10)

\* an int printed through std::hex: a negative int prints as its unsigned
\* 32-bit pattern, the upper half followed by the four digits of the lower half
HexText(n) ==
    IF n >= 0 THEN NaturalText(n, 16)
    ELSE LET low == NaturalText(n % 65536, 16)
         IN  NaturalText((n \div 65536) + 65536, 16)
                 \o SubSeq(<<"0","0","0">>, 1, 4 - Len(low)) \o low

\* character classes for scanning a run
InClass(c, class) ==
    CASE class = "digit" -> IsDigit(c)
      [] class = "hex"   -> IsHexDigit(c)
      [] class = "space" -> c = " "
      [] class = "zero"  -> c = "0"

\* the length of the longest run of characters of a class in s from the
\* 1-based index i
RECURSIVE RunLength(_, _, _)
RunLength(s, i, class) ==
    IF i > Len(s) \/ ~InClass(s[i], class) THEN 0 ELSE 1 + RunLength(s, i + 1, class)

\* the value of a run of at most five digits in the given base, -1 for a longer one
RECURSIVE DigitsValue(_, _)
DigitsValue(ds, base) ==
    IF Len(ds) > 5 THEN -1
    ELSE IF ds = <<>> THEN 0
    ELSE DigitsValue(SubSeq(ds, 1, Len(ds) - 1), base) * base + HexValue(ds[Len(ds)])

\* the halves <<hi, lo>> of the value hi * 2^16 + lo of a run of digits
RECURSIVE WideDigits(_, _)
WideDigits(ds, base) ==
    IF ds = <<>> THEN << 0, 0 >>
    ELSE LET w   == WideDigits(SubSeq(ds, 1, Len(ds) - 1), base)
             low == w[2] * base + HexValue(ds[Len(ds)])
         IN  << w[1] * base + (low \div 65536), low % 65536 >>

\* String::SubString( start, length ), clamped to the text
SubString(s, start, length) ==
    SubSeq(s, start + 1, IF length > Len(s) - start THEN Len(s) ELSE start + length)

\* String::Repeat( count )
RECURSIVE Repeat(_, _)
Repeat(s, count) ==
    IF count = 0 THEN <<>>
    ELSE LET half == Repeat(s, count \div 2)
         IN  half \o half \o (IF count % 2 = 1 THEN s ELSE <<>>)

ToLower(c) ==
    IF c \in Range(UpperChars)
    THEN LowerChars[CHOOSE i \in DOMAIN UpperChars : UpperChars[i] = c]
    ELSE c

\* String::Upper and String::Lower
Upper(s) == [i \in DOMAIN s |-> ToUpper(s[i])]
Lower(s) == [i \in DOMAIN s |-> ToLower(s[i])]

(***************************************************************************)
(* The string handlers                                                     *)
(***************************************************************************)
\* a handler on StackTopString whose control flow does not depend on the text
OneString(vs, en, F(_), untracked) ==
    LET e == StackTopString(vs)
    IN  IF e # "" THEN { Throw(e, vs, en) }
        ELSE IF ~Top(vs).tracked THEN { Ok(SetTop(vs, untracked), en) }
        ELSE { Ok(SetTop(vs, F(Top(vs).str)), en) }

\* FormatAssemblyTime: strftime's text is not tracked; a result of length 0 throws
EvalTime(vs, en) ==
    LET e == StackTopString(vs)
    IN  IF e # "" THEN { Throw(e, vs, en) }
        ELSE IF Top(vs).tracked /\ Top(vs).str = <<>> THEN { Throw("TimeResultTooBig", vs, en) }
        ELSE { Ok(SetTop(vs, UntrackedString), en), Throw("TimeResultTooBig", vs, en) }

\* StringUtils::PrintNumber: an integer prints as its decimal digits
EvalStr(vs, en) ==
    OneNumber(vs, en, LAMBDA x : IF x.den = 1 THEN Str(DecimalText(x.num)) ELSE UntrackedString)

EvalStrHex(vs, en) ==
    LET e == StackTopNumber(vs)
    IN  IF e # "" THEN { Throw(e, vs, en) }
        ELSE IF ~Known(Top(vs))
        THEN UntrackedOutcomes(vs, en, SetTop(vs, UntrackedString), {"OutOfIntegerRange"}, {en})
        ELSE { IF value.error # "" THEN Throw(value.error, vs, en)
               ELSE Ok(SetTop(vs, Str(HexText(value.int))), en) :
                 value \in ConvertDoubleToInt(Top(vs)) }

\* strtod on the text: leading spaces, an optional sign, decimal digits.  A
\* text that goes on as a fraction, an exponent, a hex float or an infinity
\* gives a number the model does not track, and strtod may store ERANGE.
\* Digits (not all 0) with an exponent of 309 or more overflow a double:
\* strtod gives HUGE_VAL and stores ERANGE.  NAN gives NaN.  errno is not
\* looked at.
EvalVal(vs, en) ==
    LET e == StackTopString(vs)
        s == Top(vs).str
        sp == RunLength(s, 1, "space")
        signed == sp < Len(s) /\ s[sp + 1] \in {"+", "-"}
        first == sp + (IF signed THEN 2 ELSE 1)
        n == RunLength(s, first, "digit")
        next == IF first + n <= Len(s) THEN ToUpper(s[first + n]) ELSE ""
        v == DigitsValue(SubSeq(s, first, first + n - 1), 10)
        x == RunLength(s, first + n + 1, "digit")
        exponent == DigitsValue(SubSeq(s, first + n + 1, first + n + x), 10)
    IN  IF e # "" THEN { Throw(e, vs, en) }
        ELSE IF Top(vs).tracked /\ first + 2 <= Len(s)
                /\ Upper(SubSeq(s, first, first + 2)) = <<"N","A","N">>
        THEN { Ok(SetTop(vs, NaN), en) }
        ELSE IF Top(vs).tracked /\ v > 0 /\ next = "E" /\ x > 0 /\ (exponent < 0 \/ exponent >= 309)
        THEN { Ok(SetTop(vs, UntrackedNumber), ERANGE) }
        ELSE IF ~Top(vs).tracked \/ next \in {".", "E", "X", "I", "N"} \/ v < 0
        THEN { Ok(SetTop(vs, UntrackedNumber), y) : y \in {en, ERANGE} }
        ELSE { Ok(SetTop(vs, IF signed /\ s[sp + 1] = "-" THEN IntResult(-v) ELSE IntResult(v)), en) }

\* every exception of the engine
Exceptions ==
    { "ExpressionTooComplex", "SymbolNotDefined", "InvalidCharacter", "MissingQuote",
      "ParameterCount", "MismatchedParentheses", "EmptyExpression", "MissingValue",
      "TypeMismatch", "OutOfIntegerRange", "IllegalOperation", "DivisionByZero",
      "TimeResultTooBig", "NumberTooBig" }

\* the nested LineParser is run by the caller of the handler (eval); the
\* evaluation of a text the model does not track can end in any way
EvalEval(vs, en) ==
    LET e == StackTopString(vs)
    IN  IF e # "" THEN { Throw(e, vs, en) }
        ELSE IF ~Top(vs).tracked
        THEN { Ok(SetTop(vs, v), x) : v \in {UntrackedNumber, UntrackedString}, x \in ErrnoValues }
             \cup { Throw(x, vs, y) : x \in Exceptions, y \in ErrnoValues }
        ELSE { [vs |-> vs, errno |-> en, error |-> "", eval |-> TRUE] }

EvalLen(vs, en) == OneString(vs, en, LAMBDA s : IntResult(Len(s)), UntrackedNumber)

EvalChr(vs, en) ==
    LET e == StackTopNumber(vs)
    IN  IF e # "" THEN { Throw(e, vs, en) }
        ELSE IF ~Known(Top(vs))
        THEN UntrackedOutcomes(vs, en, SetTop(vs, UntrackedString),
                               {"OutOfIntegerRange", "IllegalOperation"}, {en})
        ELSE { LET ascii == value.int
               IN  IF value.error # "" THEN Throw(value.error, vs, en)
                   ELSE IF ascii < 0 \/ ascii > 255 THEN Throw("IllegalOperation", vs, en)
                   ELSE Ok(SetTop(vs, Str(<< AsciiChar(ascii) >>)), en) :
                 value \in ConvertDoubleToInt(Top(vs)) }

\* the first byte read as a signed char
EvalAscSigned(vs, en) ==
    LET e == StackTopString(vs)
    IN  IF e # "" THEN { Throw(e, vs, en) }
        ELSE IF ~Top(vs).tracked
        THEN UntrackedOutcomes(vs, en, SetTop(vs, UntrackedNumber), {"IllegalOperation"}, {en})
        ELSE IF Len(Top(vs).str) = 0 THEN { Throw("IllegalOperation", vs, en) }
        ELSE { LET byte == AsciiCode(Top(vs).str[1])
               IN  Ok(SetTop(vs, IntVal(IF byte > 127 THEN byte - 256 ELSE byte)), en) }

EvalAsc(vs, en) ==
    LET e == StackTopString(vs)
    IN  IF e # "" THEN { Throw(e, vs, en) }
        ELSE IF ~Top(vs).tracked
        THEN UntrackedOutcomes(vs, en, SetTop(vs, UntrackedNumber), {"IllegalOperation"}, {en})
        ELSE IF Len(Top(vs).str) = 0 THEN { Throw("IllegalOperation", vs, en) }
        ELSE { Ok(SetTop(vs, IntVal(AsciiCode(Top(vs).str[1]))), en) }

Third(vs) == vs[Len(vs) - 2]

EvalMid(vs, en) ==
    LET value1 == Third(vs)
        value2 == Second(vs)
        value3 == Top(vs)
        popped == SubSeq(vs, 1, Len(vs) - 2)
    IN  IF Len(vs) < 3 THEN { Throw("MissingValue", vs, en) }
        ELSE IF value1.type # StringValue \/ value2.type # NumberValue
                \/ value3.type # NumberValue
        THEN { Throw("TypeMismatch", vs, en) }
        ELSE IF ~value1.tracked \/ ~Known(value2) \/ ~Known(value3)
        THEN UntrackedOutcomes(popped, en, SetTop(popped, UntrackedString),
                               {"OutOfIntegerRange", "IllegalOperation"}, {en})
        ELSE { \* index = i.int - 1 (for i.int = INT_MIN the subtraction overflows: the
               \* wrapped index is beyond the text, the unwrapped one below 0)
               IF i.error # "" THEN Throw(i.error, popped, en)
               ELSE IF l.error # "" THEN Throw(l.error, popped, en)
               ELSE IF i.int < 1 \/ i.int - 1 > Len(value1.str) \/ l.int < 0
               THEN Throw("IllegalOperation", popped, en)
               ELSE Ok(SetTop(popped, Str(SubString(value1.str, i.int - 1, l.int))), en) :
                 i \in ConvertDoubleToInt(value2), l \in ConvertDoubleToInt(value3) }

\* EvalLeft and EvalRight differ in the substring they take
LeftOrRight(vs, en, Part(_, _)) ==
    LET value1 == Second(vs)
        value2 == Top(vs)
        popped == SubSeq(vs, 1, Len(vs) - 1)
    IN  IF Len(vs) < 2 THEN { Throw("MissingValue", vs, en) }
        ELSE IF value1.type # StringValue \/ value2.type # NumberValue
        THEN { Throw("TypeMismatch", vs, en) }
        ELSE IF ~value1.tracked \/ ~Known(value2)
        THEN UntrackedOutcomes(popped, en, SetTop(popped, UntrackedString),
                               {"OutOfIntegerRange", "IllegalOperation"}, {en})
        ELSE { IF count.error # "" THEN Throw(count.error, popped, en)
               ELSE IF count.int < 0 \/ count.int > Len(value1.str)
               THEN Throw("IllegalOperation", popped, en)
               ELSE Ok(SetTop(popped, Str(Part(value1.str, count.int))), en) :
                 count \in ConvertDoubleToInt(value2) }

EvalLeft(vs, en) == LeftOrRight(vs, en, LAMBDA text, count : SubString(text, 0, count))

\* a RIGHT$ that takes its bytes from the start of the text
EvalRightFromStart(vs, en) == LeftOrRight(vs, en, LAMBDA text, count : SubString(text, 0, count))

EvalRight(vs, en) ==
    LeftOrRight(vs, en, LAMBDA text, count : SubString(text, Len(text) - count, count))

\* a STRING$ that does not test the product
EvalStringWithoutProductTest(vs, en) ==
    LET value1 == Second(vs)
        value2 == Top(vs)
        popped == SubSeq(vs, 1, Len(vs) - 1)
    IN  IF Len(vs) < 2 THEN { Throw("MissingValue", vs, en) }
        ELSE IF value1.type # NumberValue \/ value2.type # StringValue
        THEN { Throw("TypeMismatch", vs, en) }
        ELSE { IF count.error # "" THEN Throw(count.error, popped, en)
               ELSE IF count.int < 0 \/ count.int >= 65536 \/ Len(value2.str) >= 65536
               THEN Throw("IllegalOperation", popped, en)
               ELSE Ok(SetTop(popped, Str(Repeat(value2.str, count.int))), en) :
                 count \in ConvertDoubleToInt(value1) }

EvalString(vs, en) ==
    LET value1 == Second(vs)
        value2 == Top(vs)
        popped == SubSeq(vs, 1, Len(vs) - 1)
    IN  IF Len(vs) < 2 THEN { Throw("MissingValue", vs, en) }
        ELSE IF value1.type # NumberValue \/ value2.type # StringValue
        THEN { Throw("TypeMismatch", vs, en) }
        ELSE IF ~Known(value1) \/ ~value2.tracked
        THEN UntrackedOutcomes(popped, en, SetTop(popped, UntrackedString),
                               {"OutOfIntegerRange", "IllegalOperation"}, {en})
        ELSE { IF count.error # "" THEN Throw(count.error, popped, en)
               ELSE IF count.int < 0 \/ count.int >= 65536 \/ Len(value2.str) >= 65536
                       \/ count.int * Len(value2.str) >= 65536
               THEN Throw("IllegalOperation", popped, en)
               ELSE Ok(SetTop(popped, Str(Repeat(value2.str, count.int))), en) :
                 count \in ConvertDoubleToInt(value1) }

EvalUpper(vs, en) == OneString(vs, en, LAMBDA s : Str(Upper(s)), UntrackedString)

EvalLower(vs, en) == OneString(vs, en, LAMBDA s : Str(Lower(s)), UntrackedString)

\* ( this->*opHandler )()
Exec(handler, vs, en) ==
    CASE handler = "EvalPower"           -> EvalPower(vs, en)
      [] handler = "EvalMultiply"        -> EvalMultiply(vs, en)
      [] handler = "EvalDivide"          -> EvalDivide(vs, en)
      [] handler = "EvalMod"             -> EvalMod(vs, en)
      [] handler = "EvalDiv"             -> EvalDiv(vs, en)
      [] handler = "EvalShiftLeft"       -> EvalShiftLeft(vs, en)
      [] handler = "EvalShiftRight"      -> EvalShiftRight(vs, en)
      [] handler = "EvalAdd"             -> EvalAdd(vs, en)
      [] handler = "EvalSubtract"        -> EvalSubtract(vs, en)
      [] handler = "EvalEqual"           -> EvalEqual(vs, en)
      [] handler = "EvalNotEqual"        -> EvalNotEqual(vs, en)
      [] handler = "EvalLessThanOrEqual" -> EvalLessThanOrEqual(vs, en)
      [] handler = "EvalMoreThanOrEqual" -> EvalMoreThanOrEqual(vs, en)
      [] handler = "EvalLessThan"        -> EvalLessThan(vs, en)
      [] handler = "EvalMoreThan"        -> EvalMoreThan(vs, en)
      [] handler = "EvalAnd"             -> EvalAnd(vs, en)
      [] handler = "EvalOr"              -> EvalOr(vs, en)
      [] handler = "EvalEor"             -> EvalEor(vs, en)
      [] handler = "EvalNegate"          -> EvalNegate(vs, en)
      [] handler = "EvalPosate"          -> EvalPosate(vs, en)
      [] handler = "EvalHi"              -> EvalHi(vs, en)
      [] handler = "EvalLo"              -> EvalLo(vs, en)
      [] handler = "EvalSin"             -> EvalSin(vs, en)
      [] handler = "EvalCos"             -> EvalCos(vs, en)
      [] handler = "EvalTan"             -> EvalTan(vs, en)
      [] handler = "EvalArcSin"          -> EvalArcSin(vs, en)
      [] handler = "EvalArcCos"          -> EvalArcCos(vs, en)
      [] handler = "EvalArcTan"          -> EvalArcTan(vs, en)
      [] handler = "EvalSqrt"            -> EvalSqrt(vs, en)
      [] handler = "EvalDegToRad"        -> EvalDegToRad(vs, en)
      [] handler = "EvalRadToDeg"        -> EvalRadToDeg(vs, en)
      [] handler = "EvalInt"             -> EvalInt(vs, en)
      [] handler = "EvalAbs"             -> EvalAbs(vs, en)
      [] handler = "EvalSgn"             -> EvalSgn(vs, en)
      [] handler = "EvalRnd"             -> EvalRnd(vs, en)
      [] handler = "EvalNot"             -> EvalNot(vs, en)
      [] handler = "EvalLog"             -> EvalLog(vs, en)
      [] handler = "EvalLn"              -> EvalLn(vs, en)
      [] handler = "EvalExp"             -> EvalExp(vs, en)
      [] handler = "EvalTime"            -> EvalTime(vs, en)
      [] handler = "EvalStr"             -> EvalStr(vs, en)
      [] handler = "EvalStrHex"          -> EvalStrHex(vs, en)
      [] handler = "EvalVal"             -> EvalVal(vs, en)
      [] handler = "EvalEval"            -> EvalEval(vs, en)
      [] handler = "EvalLen"             -> EvalLen(vs, en)
      [] handler = "EvalChr"             -> EvalChr(vs, en)
      [] handler = "EvalAsc"             -> EvalAsc(vs, en)
      [] handler = "EvalMid"             -> EvalMid(vs, en)
      [] handler = "EvalLeft"            -> EvalLeft(vs, en)
      [] handler = "EvalRight"           -> EvalRight(vs, en)
      [] handler = "EvalString"          -> EvalString(vs, en)
      [] handler = "EvalUpper"           -> EvalUpper(vs, en)
      [] handler = "EvalLower"           -> EvalLower(vs, en)

(***************************************************************************)
(* Collaborators of the engine that live outside expression.cpp            *)
(***************************************************************************)
\* AdvanceAndCheckEndOfSubStatement( includeComma ): skips spaces; FALSE at the
\* end of the line and, at the top level of an expression, at a comma.
\* Gives the column it leaves and what it returns.
AdvanceAndCheckEndOfSubStatement(line, column, includeComma) ==
    LET col == column + RunLength(line, column + 1, "space")
    IN  [column |-> col,
         more   |-> col < Len(line) /\ ~(includeComma /\ CharAt(line, col) = ",")]

\* SkipExpression( bracketCount, bAllowOneMismatchedCloseBracket ): moves the
\* column to the end of the sub-statement or, when one is allowed, to the
\* close bracket that matches no open bracket of the expression
RECURSIVE SkipExpression(_, _, _, _)
SkipExpression(line, column, bracketCount, allow) ==
    LET a == AdvanceAndCheckEndOfSubStatement(line, column, bracketCount = 0)
        c == CharAt(line, a.column)
    IN  IF ~a.more THEN a.column
        ELSE IF allow /\ c \in {"(", "["}
        THEN SkipExpression(line, a.column + 1, bracketCount + 1, allow)
        ELSE IF allow /\ c \in {")", "]"}
        THEN IF bracketCount = 0 THEN a.column
             ELSE SkipExpression(line, a.column + 1, bracketCount - 1, allow)
        ELSE SkipExpression(line, a.column + 1, bracketCount, allow)

\* Literals::ParseNumeric: a decimal literal (digits, then optionally a point
\* and digits) or a hex literal (& and hex digits) at the column.  A literal
\* of up to ten decimal or eight hex digits is a double the model knows.
\* [ok, value, column]
ParseNumeric(line, column) ==
    LET n == RunLength(line, column + 1, "digit")
        point == column + n < Len(line) /\ CharAt(line, column + n) = "."
        m == IF point THEN RunLength(line, column + n + 2, "digit") ELSE 0
        whole == DigitsValue(SubSeq(line, column + 1, column + n), 10)
        frac  == DigitsValue(SubSeq(line, column + n + 2, column + n + 1 + m), 10)
        scale == DigitsValue(<<"1">> \o [i \in 1 .. m |-> "0"], 10)
        h == IF column < Len(line) /\ CharAt(line, column) = "&"
             THEN RunLength(line, column + 2, "hex") ELSE 0
        hex == DigitsValue(SubSeq(line, column + 2, column + 1 + h), 16)
        wideWhole == WideDigits(SubSeq(line, column + 1, column + n), 10)
        wideHex   == WideDigits(SubSeq(line, column + 2, column + 1 + h), 16)
        zeros     == RunLength(line, column + n + 2, "zero")
    IN  IF n > 0 /\ m > 0
        THEN [ok |-> TRUE, column |-> column + n + 1 + m,
              value |-> IF whole >= 0 /\ frac >= 0 /\ scale >= 0 /\ whole <= ExactLimit
                        THEN RAdd(IntVal(whole), Num(frac, scale))
                        ELSE IF n <= 10 THEN Wide(wideWhole[1], wideWhole[2], zeros < m)
                        ELSE UntrackedNumber]
        ELSE IF n > 0
        THEN [ok |-> TRUE, column |-> column + n,
              value |-> IF n <= 10 THEN Wide(wideWhole[1], wideWhole[2], FALSE)
                        ELSE UntrackedNumber]
        ELSE IF h > 0
        THEN [ok |-> TRUE, column |-> column + 1 + h,
              value |-> IF h <= 8 THEN Wide(wideHex[1], wideHex[2], FALSE)
                        ELSE UntrackedNumber]
        ELSE [ok |-> FALSE, column |-> column, value |-> UntrackedNumber]

IsNameChar(c) == IsAlpha(c) \/ IsDigit(c) \/ c = "_"

\* GetSymbolName: the identifier at the column, a letter or underscore and the
\* letters, digits and underscores after it; a $ ends the name and belongs to it
RECURSIVE NameLength(_, _)
NameLength(line, column) ==
    IF column >= Len(line) THEN 0
    ELSE IF CharAt(line, column) = "$" THEN 1
    ELSE IF IsNameChar(CharAt(line, column)) THEN 1 + NameLength(line, column + 1)
    ELSE 0

GetSymbolName(line, column) == SubSeq(line, column + 1, column + NameLength(line, column))

\* the symbol table of the source code (SourceCode::GetSymbolValue)
SymbolTable ==
    [name \in { <<"V">>, <<"Y">>, <<"T">> } |->
        IF name = <<"V">> THEN IntVal(5)
        ELSE IF name = <<"Y">> THEN IntVal(3)
        ELSE Str(<<"a", "b">>)]

\* ObjectCode::Instance().GetPC()
GetPC == 6400

(***************************************************************************)
(* LineParser::GetValue: [error, value, column], error "" when a value is  *)
(* returned.                                                               *)
(***************************************************************************)
\* the scan of a string literal from the column after the opening quote:
\* [done, text, column]
\* a mutation of ScanString: every quote ends the literal
ScanToQuote(line, column, text) ==
    LET quotes == { c \in column .. Len(line) - 1 : CharAt(line, c) = "\"" }
        close  == CHOOSE c \in quotes : \A d \in quotes : c <= d
    IN  IF quotes = {} THEN [done |-> FALSE, text |-> text, column |-> Len(line)]
        ELSE [done |-> TRUE, text |-> text \o SubSeq(line, column + 1, close), column |-> close + 1]

RECURSIVE ScanString(_, _, _)
ScanString(line, column, text) ==
    IF column >= Len(line) THEN [done |-> FALSE, text |-> text, column |-> column]
    ELSE IF CharAt(line, column) = "\""
    THEN IF column + 1 < Len(line) /\ CharAt(line, column + 1) = "\""
         THEN ScanString(line, column + 2, Append(text, "\""))
         ELSE [done |-> TRUE, text |-> text, column |-> column + 1]
    ELSE ScanString(line, column + 1, Append(text, CharAt(line, column)))

GetValue(line, column) ==
    LET numeric == ParseNumeric(line, column)
        c == CharAt(line, column)
        scan == ScanString(line, column + 1, <<>>)
        symbolName == GetSymbolName(line, column)
        Fail(e, col) == [error |-> e, value |-> UntrackedNumber, column |-> col]
        Give(v, col) == [error |-> "", value |-> v, column |-> col]
    IN  IF numeric.ok THEN Give(numeric.value, numeric.column)
        ELSE IF column < Len(line) /\ c = "*"
        THEN Give(IntResult(GetPC), column + 1)
        ELSE IF column < Len(line) /\ c = "'"
        THEN IF Len(line) - column < 3 \/ CharAt(line, column + 2) # "'"
             THEN Fail("InvalidCharacter", column)
             ELSE Give(IntVal(AsciiCode(CharAt(line, column + 1))), column + 3)
        ELSE IF column < Len(line) /\ c = "\""
        THEN IF ~scan.done THEN Fail("MissingQuote", scan.column)
             ELSE Give(Str(scan.text), scan.column)
        ELSE IF column < Len(line) /\ (IsAlpha(c) \/ c = "_")
        THEN IF symbolName = <<"T","I","M","E","$">>
             THEN Give(UntrackedString, column + Len(symbolName))
             ELSE IF symbolName \in DOMAIN SymbolTable
             THEN Give(SymbolTable[symbolName], column + Len(symbolName))
             ELSE Fail("SymbolNotDefined", column + Len(symbolName))
        ELSE Fail("InvalidCharacter", column)

(***************************************************************************)
(* LineParser::EvaluateExpression as a state machine                       *)
(*                                                                         *)
(* frames is the call stack of EvaluateExpression activations: the parser  *)
(* the caller evaluates on, and on top of it the parsers EvalEval          *)
(* constructs.  A frame holds the LineParser's members (line, column, the  *)
(* two stacks; a stack pointer is the length of its sequence), the locals  *)
(* of EvaluateExpression and the position the activation has reached.      *)
(* errno is the C library's, shared by every handler.  exception is the    *)
(* exception that left the outermost call, "" while there is none.         *)
(* input records the text and flags the caller passed.                     *)
(***************************************************************************)
VARIABLES frames, errno, isFirstPass, exception, input, order

vars == << frames, errno, isFirstPass, exception, input, order >>

VALUE_OR_UNARY == "VALUE_OR_UNARY"
BINARY         == "BINARY"

\* the capacities of the two stacks (lineparser.h)
MAX_VALUES    == 32
MAX_OPERATORS == 32

NoOperator == Op(<<>>, 0, 0, NULL)

\* the state of a LineParser on entry to the loop of EvaluateExpression
NewFrame(line, allow) ==
    [ line                            |-> line,
      column                          |-> 0,
      valueStack                      |-> <<>>,
      operatorStack                   |-> <<>>,
      bracketCount                    |-> 0,
      pendingCommaCount               |-> 0,
      expected                        |-> VALUE_OR_UNARY,
      bAllowOneMismatchedCloseBracket |-> allow,
      thisOp                          |-> NoOperator,
      separator                       |-> FALSE,
      skipExpressionCalls             |-> <<>>,
      pc                              |-> "loop",
      resume                          |-> "" ]

\* the running activation
This == frames[Len(frames)]

SetThis(f) == [frames EXCEPT ![Len(frames)] = f]

Running == exception = ""

\* `order` is the history of the loop conditions evaluated, the values read
\* and the handlers run: what was called, in which activation, m_column at the
\* call and the value stack the call found
Event(what, f) ==
    [ what |-> what, depth |-> Len(frames), column |-> f.column, operands |-> f.valueStack ]

\* a step from the head of the loop has evaluated the loop condition
Observed ==
    IF This.pc = "loop" THEN Append(order, Event("AdvanceAndCheckEndOfSubStatement", This))
    ELSE order

\* the activation goes on in state f
Continue(f) ==
    /\ frames' = SetThis(f)
    /\ order' = Observed
    /\ UNCHANGED << errno, isFirstPass, exception, input >>

\* value = GetValue() has returned, called in state f; the activation goes on
\* in state g
ContinueWithValue(f, g) ==
    /\ frames' = SetThis(g)
    /\ order' = Append(Observed, Event("GetValue", f))
    /\ UNCHANGED << errno, isFirstPass, exception, input >>

\* the activation throws e in state f; nothing between it and the caller of
\* the outermost EvaluateExpression catches e
Raise(e, f) ==
    /\ frames' = SetThis(f)
    /\ exception' = e
    /\ order' = Observed
    /\ UNCHANGED << errno, isFirstPass, input >>

\* ( this->*opHandler )() in state f.  EvalEval constructs a LineParser on the
\* text and calls its EvaluateExpression with no argument.
Execute(f, opHandler) ==
    \E o \in Exec(opHandler, f.valueStack, errno) :
        /\ errno' = o.errno
        /\ order' = Append(order, Event(opHandler, f))
        /\ UNCHANGED << isFirstPass, input >>
        /\ IF o.error # ""
           THEN /\ frames' = SetThis([f EXCEPT !.valueStack = o.vs])
                /\ exception' = o.error
           ELSE IF o.eval
           THEN /\ frames' = Append(SetThis([f EXCEPT !.resume = f.pc, !.pc = "eval"]),
                                    NewFrame(Top(f.valueStack).str, FALSE))
                /\ UNCHANGED exception
           ELSE /\ frames' = SetThis([f EXCEPT !.valueStack = o.vs])
                /\ UNCHANGED exception

\* m_operatorStackPtr--; opHandler = m_operatorStack[ m_operatorStackPtr ].handler;
\* assert( opHandler != NULL ); ( this->*opHandler )()
PopAndExecute(f) ==
    LET popped == [f EXCEPT !.operatorStack = SubSeq(@, 1, Len(@) - 1)]
        opHandler == Top(f.operatorStack).handler
    IN  IF opHandler = NULL THEN Raise("AssertionFailed", popped)
        ELSE Execute(popped, opHandler)

\* the loop condition: AdvanceAndCheckEndOfSubStatement( bracketCount == 0 )
Advance == AdvanceAndCheckEndOfSubStatement(This.line, This.column, This.bracketCount = 0)

AtLoop == Running /\ This.pc = "loop"

UnaryToken  == MatchToken(m_gaUnaryOperatorTable, This.line, Advance.column)
BinaryToken == MatchToken(m_gaBinaryOperatorTable, This.line, Advance.column)

\* a mutation of StackFull: the test is late by one
StackFullLate(stack, capacity) == Len(stack) > capacity

\* m_valueStackPtr == MAX_VALUES, m_operatorStackPtr == MAX_OPERATORS
StackFull(stack, capacity) == Len(stack) = capacity

\* a mutation of Caught: the catch block rethrows without SkipExpression
CaughtWithoutSkip(f, v, firstPass) == [f EXCEPT !.column = v.column]

\* the catch block of EvaluateExpression: the parser in state f has caught the
\* SymbolNotDefined of GetValue, whose outcome is v; the state it rethrows in
Caught(f, v, firstPass) ==
    IF firstPass
    THEN [f EXCEPT !.column = SkipExpression(f.line, v.column, f.bracketCount,
                                             f.bAllowOneMismatchedCloseBracket),
                   !.skipExpressionCalls =
                       Append(@, << f.bracketCount, f.bAllowOneMismatchedCloseBracket >>)]
    ELSE [f EXCEPT !.column = v.column]

\* a mutation of SeparatorUnexpected: commas are not counted
SeparatorAlwaysExpected(bracket) == FALSE

\* a separator when the open bracket expects no more parameters
SeparatorUnexpected(bracket) == bracket.parameterCount = 0

\* a close bracket when the open bracket expects more parameters
ParametersMissing(bracket) == bracket.parameterCount # 0

\* a mutation of Rewound: the column is moved back over the close bracket
RewoundTwice(column) == column - 2

\* a mutation of Rewound: the column stays after the close bracket
NotRewound(column) == column

\* m_column-- on the close bracket that matches no open bracket
Rewound(column) == column - 1

\* the condition of the juggling loop of a unary operator
UnaryPops(thisOp, top)  == thisOp.precedence < top.precedence

\* a mutation of BinaryPops: every stacked operator is popped, whatever its
\* precedence
BinaryPopsIgnoringPrecedence(thisOp, top) == top.handler # NULL

\* a mutation of BinaryPops: the loop runs down to the bottom of the stack,
\* through the open brackets
BinaryPopsThroughBrackets(thisOp, top) == TRUE

\* a mutation of BinaryPops: no stacked operator is popped, every handler is
\* left to the end of the expression
BinaryPopsNothing(thisOp, top) == FALSE

\* a mutation of BinaryPops: the strict comparison of the unary loop
BinaryPopsStrictly(thisOp, top) == thisOp.precedence < top.precedence

\* a mutation of BinaryPops: ^ does not pop an operator of its own precedence
BinaryPopsRightBindingPower(thisOp, top) ==
    /\ thisOp.precedence <= top.precedence
    /\ ~(thisOp.handler = "EvalPower" /\ top.handler = "EvalPower")

\* the condition of the juggling loop of a binary operator
BinaryPops(thisOp, top) == thisOp.precedence <= top.precedence

\* the loop ends: the sub-statement is over
EndOfSubStatement ==
    /\ AtLoop
    /\ ~Advance.more
    /\ Continue([This EXCEPT !.column = Advance.column, !.pc = "purge"])

\* a mutation of ReadValue: the state stays VALUE_OR_UNARY
ReadValueOnly ==
    /\ AtLoop
    /\ Advance.more
    /\ This.expected = VALUE_OR_UNARY
    /\ UnaryToken = 0
    /\ LET f == [This EXCEPT !.column = Advance.column]
           v == GetValue(f.line, f.column)
       IN  IF StackFull(f.valueStack, MAX_VALUES) THEN Raise("ExpressionTooComplex", f)
           ELSE IF v.error = "SymbolNotDefined" THEN Raise(v.error, Caught(f, v, isFirstPass))
           ELSE IF v.error # "" THEN Raise(v.error, [f EXCEPT !.column = v.column])
           ELSE ContinueWithValue(f, [f EXCEPT !.column = v.column,
                                                !.valueStack = Append(@, v.value)])

\* no unary operator at the column: a value
ReadValue ==
    /\ AtLoop
    /\ Advance.more
    /\ This.expected = VALUE_OR_UNARY
    /\ UnaryToken = 0
    /\ LET f == [This EXCEPT !.column = Advance.column]
           v == GetValue(f.line, f.column)
       IN  IF StackFull(f.valueStack, MAX_VALUES) THEN Raise("ExpressionTooComplex", f)
           ELSE IF v.error = "SymbolNotDefined" THEN Raise(v.error, Caught(f, v, isFirstPass))
           ELSE IF v.error # "" THEN Raise(v.error, [f EXCEPT !.column = v.column])
           ELSE ContinueWithValue(f, [f EXCEPT !.column = v.column,
                                                !.valueStack = Append(@, v.value),
                                                !.expected = BINARY])

\* a mutation of ReadUnaryOperator: a function token is un-read whole
ReadUnaryOperatorInPlace ==
    /\ AtLoop
    /\ Advance.more
    /\ This.expected = VALUE_OR_UNARY
    /\ UnaryToken # 0
    /\ LET thisOp == m_gaUnaryOperatorTable[UnaryToken]
           len == Len(thisOp.token)
           function == len > 1 /\ thisOp.token[len] = "("
       IN  /\ thisOp.handler # NULL
           /\ Continue([This EXCEPT
                  !.column = Advance.column + len - (IF function THEN len ELSE 0),
                  !.pendingCommaCount = IF function THEN thisOp.parameterCount - 1 ELSE @,
                  !.thisOp = thisOp,
                  !.pc = "unary"])

\* a unary operator or a function token
ReadUnaryOperator ==
    /\ AtLoop
    /\ Advance.more
    /\ This.expected = VALUE_OR_UNARY
    /\ UnaryToken # 0
    /\ LET thisOp == m_gaUnaryOperatorTable[UnaryToken]
           len == Len(thisOp.token)
           function == len > 1 /\ thisOp.token[len] = "("
       IN  /\ thisOp.handler # NULL
           /\ Continue([This EXCEPT
                  !.column = Advance.column + len - (IF function THEN 1 ELSE 0),
                  !.pendingCommaCount = IF function THEN thisOp.parameterCount - 1 ELSE @,
                  !.thisOp = thisOp,
                  !.pc = "unary"])

\* an open bracket: the sentinel takes the pending comma count
ReadOpenBracket ==
    /\ AtLoop
    /\ Advance.more
    /\ This.expected = VALUE_OR_UNARY
    /\ UnaryToken # 0
    /\ LET row == m_gaUnaryOperatorTable[UnaryToken]
           thisOp == [row EXCEPT !.parameterCount = This.pendingCommaCount]
           f == [This EXCEPT !.column = Advance.column + Len(row.token),
                             !.pendingCommaCount = 0,
                             !.bracketCount = @ + 1]
       IN  /\ row.handler = NULL
           /\ IF StackFull(f.operatorStack, MAX_OPERATORS) THEN Raise("ExpressionTooComplex", f)
              ELSE Continue([f EXCEPT !.operatorStack = Append(@, thisOp)])

\* the juggling loop of a unary operator
PopForUnaryOperator ==
    /\ Running
    /\ This.pc = "unary"
    /\ Len(This.operatorStack) > 0
    /\ UnaryPops(This.thisOp, Top(This.operatorStack))
    /\ PopAndExecute(This)

PushUnaryOperator ==
    /\ Running
    /\ This.pc = "unary"
    /\ ~(Len(This.operatorStack) > 0 /\ UnaryPops(This.thisOp, Top(This.operatorStack)))
    /\ IF StackFull(This.operatorStack, MAX_OPERATORS) THEN Raise("ExpressionTooComplex", This)
       ELSE Continue([This EXCEPT !.operatorStack = Append(@, This.thisOp),
                                  !.thisOp = NoOperator,
                                  !.pc = "loop"])


\* no binary operator at the column
UnrecognisedBinaryOperator ==
    /\ AtLoop
    /\ Advance.more
    /\ This.expected = BINARY
    /\ BinaryToken = 0
    /\ Raise("InvalidCharacter", [This EXCEPT !.column = Advance.column])

\* a binary operator
ReadBinaryOperator ==
    /\ AtLoop
    /\ Advance.more
    /\ This.expected = BINARY
    /\ BinaryToken # 0
    /\ LET thisOp == m_gaBinaryOperatorTable[BinaryToken]
       IN  /\ thisOp.handler # NULL
           /\ Continue([This EXCEPT !.column = Advance.column + Len(thisOp.token),
                                    !.thisOp = thisOp,
                                    !.pc = "binary"])

\* the juggling loop of a binary operator
PopForBinaryOperator ==
    /\ Running
    /\ This.pc = "binary"
    /\ Len(This.operatorStack) > 0
    /\ BinaryPops(This.thisOp, Top(This.operatorStack))
    /\ PopAndExecute(This)

PushBinaryOperator ==
    /\ Running
    /\ This.pc = "binary"
    /\ ~(Len(This.operatorStack) > 0 /\ BinaryPops(This.thisOp, Top(This.operatorStack)))
    /\ IF StackFull(This.operatorStack, MAX_OPERATORS) THEN Raise("ExpressionTooComplex", This)
       ELSE Continue([This EXCEPT !.operatorStack = Append(@, This.thisOp),
                                  !.thisOp = NoOperator,
                                  !.expected = VALUE_OR_UNARY,
                                  !.pc = "loop"])

\* a close bracket or a parameter separator
ReadCloseBracketOrSeparator ==
    /\ AtLoop
    /\ Advance.more
    /\ This.expected = BINARY
    /\ BinaryToken # 0
    /\ LET thisOp == m_gaBinaryOperatorTable[BinaryToken]
           separator == thisOp.token = <<",">>
       IN  /\ thisOp.handler = NULL
           /\ Continue([This EXCEPT !.column = Advance.column + Len(thisOp.token),
                                    !.separator = separator,
                                    !.bracketCount = IF separator THEN @ ELSE @ - 1,
                                    !.pc = "close"])

\* the search for the matching bracket executes the operators above it
PopForCloseBracket ==
    /\ Running
    /\ This.pc = "close"
    /\ Len(This.operatorStack) > 0
    /\ Top(This.operatorStack).handler # NULL
    /\ PopAndExecute(This)

\* a mutation of FoundMatchingBracket: a close bracket matches an open bracket
\* of its own kind only
FoundBracketOfSameKind ==
    /\ Running
    /\ This.pc = "close"
    /\ Len(This.operatorStack) > 0
    /\ Top(This.operatorStack).handler = NULL
    /\ LET bracket == Top(This.operatorStack)
           popped == [This EXCEPT !.operatorStack = SubSeq(@, 1, Len(@) - 1)]
           closing == CharAt(This.line, This.column - 1)
       IN  IF This.separator
           THEN IF SeparatorUnexpected(bracket) THEN Raise("ParameterCount", popped)
                ELSE Continue([This EXCEPT
                        !.operatorStack = SetTop(@, [bracket EXCEPT !.parameterCount = @ - 1]),
                        !.expected = VALUE_OR_UNARY,
                        !.pc = "loop"])
           ELSE IF (closing = ")") # (bracket.token = <<"(">>)
                THEN Raise("MismatchedParentheses", popped)
           ELSE IF ParametersMissing(bracket) THEN Raise("ParameterCount", popped)
                ELSE Continue([popped EXCEPT !.pc = "loop"])

\* bFoundMatchingBracket: the sentinel is popped; a separator counts its
\* parameterCount down and puts it back, a close bracket wants it to be 0
FoundMatchingBracket ==
    /\ Running
    /\ This.pc = "close"
    /\ Len(This.operatorStack) > 0
    /\ Top(This.operatorStack).handler = NULL
    /\ LET bracket == Top(This.operatorStack)
           popped == [This EXCEPT !.operatorStack = SubSeq(@, 1, Len(@) - 1)]
       IN  IF This.separator
           THEN IF SeparatorUnexpected(bracket) THEN Raise("ParameterCount", popped)
                ELSE Continue([This EXCEPT
                        !.operatorStack = SetTop(@, [bracket EXCEPT !.parameterCount = @ - 1]),
                        !.expected = VALUE_OR_UNARY,
                        !.pc = "loop"])
           ELSE IF ParametersMissing(bracket) THEN Raise("ParameterCount", popped)
                ELSE Continue([popped EXCEPT !.pc = "loop"])

\* the operator stack ran out: a close bracket that matches no open bracket
NoMatchingBracket ==
    /\ Running
    /\ This.pc = "close"
    /\ Len(This.operatorStack) = 0
    /\ IF This.bAllowOneMismatchedCloseBracket
       THEN Continue([This EXCEPT !.column = Rewound(@), !.pc = "purge"])
       ELSE Raise("MismatchedParentheses", This)

\* a mutation of PurgeOperatorStack: an open bracket left on the stack is dropped
PurgeThroughBrackets ==
    /\ Running
    /\ This.pc = "purge"
    /\ Len(This.operatorStack) > 0
    /\ IF Top(This.operatorStack).handler = NULL
       THEN Continue([This EXCEPT !.operatorStack = SubSeq(@, 1, Len(@) - 1)])
       ELSE PopAndExecute(This)

\* purge the operator stack
PurgeOperatorStack ==
    /\ Running
    /\ This.pc = "purge"
    /\ Len(This.operatorStack) > 0
    /\ IF Top(This.operatorStack).handler = NULL
       THEN Raise("MismatchedParentheses",
                  [This EXCEPT !.operatorStack = SubSeq(@, 1, Len(@) - 1)])
       ELSE PopAndExecute(This)

\* a mutation of ReturnValue: m_valueStack[ 0 ] is returned without the test
\* for an empty value stack
ReturnValueUntested ==
    /\ Running
    /\ This.pc = "purge"
    /\ Len(This.operatorStack) = 0
    /\ IF Len(This.valueStack) > 1 THEN Raise("AssertionFailed", This)
       ELSE Continue([This EXCEPT !.pc = "return"])

\* assert( m_valueStackPtr <= 1 ); the empty test; return m_valueStack[ 0 ]
ReturnValue ==
    /\ Running
    /\ This.pc = "purge"
    /\ Len(This.operatorStack) = 0
    /\ IF Len(This.valueStack) > 1 THEN Raise("AssertionFailed", This)
       ELSE IF Len(This.valueStack) = 0 THEN Raise("EmptyExpression", This)
       ELSE Continue([This EXCEPT !.pc = "return"])

\* a mutation of ReturnToEval: the nested result is pushed on the caller's
\* value stack, above the text
ReturnToEvalPushes ==
    /\ Running
    /\ Len(frames) > 1
    /\ This.pc = "return"
    /\ LET caller == frames[Len(frames) - 1]
       IN  frames' = [SubSeq(frames, 1, Len(frames) - 1) EXCEPT ![Len(frames) - 1] =
                        [caller EXCEPT !.valueStack = Append(@, This.valueStack[1]),
                                       !.pc = caller.resume,
                                       !.resume = ""]]
    /\ UNCHANGED << errno, isFirstPass, exception, input, order >>

\* EvalEval stores what the nested EvaluateExpression returned
ReturnToEval ==
    /\ Running
    /\ Len(frames) > 1
    /\ This.pc = "return"
    /\ LET caller == frames[Len(frames) - 1]
       IN  frames' = [SubSeq(frames, 1, Len(frames) - 1) EXCEPT ![Len(frames) - 1] =
                        [caller EXCEPT !.valueStack = SetTop(@, This.valueStack[1]),
                                       !.pc = caller.resume,
                                       !.resume = ""]]
    /\ UNCHANGED << errno, isFirstPass, exception, input, order >>

\* the outermost EvaluateExpression has returned
Returned == Running /\ Len(frames) = 1 /\ frames[1].pc = "return"

\* the value it returned
Result == frames[1].valueStack[1]

(***************************************************************************)
(* The result wrappers, on the outcome of the outermost EvaluateExpression: *)
(* an exception it threw leaves the wrapper as it is.                       *)
(***************************************************************************)
\* [error, number]
EvaluateExpressionAsDouble ==
    IF exception # "" THEN [error |-> exception, number |-> UntrackedNumber]
    ELSE IF Result.type # NumberValue THEN [error |-> "TypeMismatch", number |-> UntrackedNumber]
    ELSE [error |-> "", number |-> Result]

\* the ways it can end: [error, int]
EvaluateExpressionAsInt ==
    LET value == EvaluateExpressionAsDouble
    IN  IF value.error # "" THEN { [error |-> value.error, int |-> 0] }
        ELSE IF ~Known(value.number)
        THEN { Converted(n) : n \in UndefinedInts } \cup { [error |-> "OutOfIntegerRange", int |-> 0] }
        ELSE ConvertDoubleToInt(value.number)

\* static_cast< unsigned int >( int ), as the two 16-bit halves of the result
CastIntToUnsigned(n) == [ high |-> (n \div 65536) % 65536, low |-> n % 65536 ]

\* the ways it can end: [error, unsigned]
EvaluateExpressionAsUnsignedInt ==
    { [error |-> o.error, unsigned |-> CastIntToUnsigned(o.int)] : o \in EvaluateExpressionAsInt }

\* [error, string]
EvaluateExpressionAsString ==
    IF exception # "" THEN [error |-> exception, string |-> UntrackedString]
    ELSE IF Result.type # StringValue THEN [error |-> "TypeMismatch", string |-> UntrackedString]
    ELSE [error |-> "", string |-> Result]


(***************************************************************************)
(* The calls the model explores.  An input is the text of the line, the    *)
(* bAllowOneMismatchedCloseBracket argument, the pass, and errno as the    *)
(* caller left it; `parts` records how the text was put together.          *)
(***************************************************************************)
\* the concatenation of a sequence of texts
RECURSIVE Flatten(_)
Flatten(texts) == IF texts = <<>> THEN <<>> ELSE Head(texts) \o Flatten(Tail(texts))

\* the concatenation with a space between the texts
RECURSIVE Spaced(_)
Spaced(texts) ==
    IF Len(texts) <= 1 THEN Flatten(texts)
    ELSE Head(texts) \o <<" ">> \o Spaced(Tail(texts))

Input(family, parts, line, allow, firstPass, en) ==
    [ family |-> family, parts |-> parts, line |-> line,
      allow |-> allow, firstPass |-> firstPass, errno |-> en ]

\* the rows of the binary table that are operators
InfixRows == { i \in DOMAIN m_gaBinaryOperatorTable : m_gaBinaryOperatorTable[i].handler # NULL }

InfixToken(i) == m_gaBinaryOperatorTable[i].token

\* `a op1 b op2 c`, as it stands ("flat") and with either pair in brackets
Operands == { <<1, 2, 3>>, <<10, 4, 3>>, <<8, 4, 2>>, <<2, 3, 2>> }

Shapes == { "flat", "left", "right" }

BinaryLine(shape, a, i1, b, i2, c) ==
    LET ta == DecimalText(a)
        tb == DecimalText(b)
        tc == DecimalText(c)
    IN  CASE shape = "flat"  -> Spaced(<< ta, InfixToken(i1), tb, InfixToken(i2), tc >>)
          [] shape = "left"  -> Spaced(<< <<"(">> \o ta, InfixToken(i1), tb \o <<")">>,
                                          InfixToken(i2), tc >>)
          [] shape = "right" -> Spaced(<< ta, InfixToken(i1), <<"(">> \o tb, InfixToken(i2),
                                          tc \o <<")">> >>)

\* errno matters to ^ alone; the bracketed shapes are entered with it clear
BinaryInputs ==
    UNION { { Input("binary", << shape, n[1], i1, n[2], i2, n[3] >>,
                    BinaryLine(shape, n[1], i1, n[2], i2, n[3]), FALSE, FALSE, en) :
                n \in Operands, i1 \in InfixRows, i2 \in InfixRows,
                en \in IF shape = "flat" THEN ErrnoValues ELSE {NoErrno} } :
            shape \in Shapes }

\* every sequence of at most MaxTokens tokens
MaxTokens == 3

Tokens == { <<"1">>, <<"U">>, <<"+">>, <<"*">>, <<"(">>, <<")">>, <<",">> }

TokenSequences == UNION { [1 .. n -> Tokens] : n \in 1 .. MaxTokens }

TokenInputs ==
    { Input("tokens", ts, Flatten(ts), allow, firstPass, NoErrno) :
        ts \in TokenSequences, allow \in BOOLEAN, firstPass \in BOOLEAN }

\* a call `name(arg,...,arg` with up to MaxArguments arguments, closed or not,
\* alone or as the left operand of +
MaxArguments == 4

Callees == { <<>>, <<"-">>, <<">","-">>, <<"L","E","N">>, <<"S","I","N">>,
             <<"L","e","f","t","$">>, <<"M","I","D","$">> }

Arguments == { <<"1">>, <<"T">> }

ArgumentLists ==
    UNION { [1 .. n -> Arguments] : n \in 0 .. MaxArguments }
    \cup { << <<"(","1",",","1",")">> >>, << <<"T">>, <<"(","1",",","1",")">> >>,
           << <<"(","T",")">>, <<"(","1",")">> >> }

RECURSIVE CommaList(_)
CommaList(args) ==
    IF Len(args) <= 1 THEN Flatten(args)
    ELSE Head(args) \o <<",">> \o CommaList(Tail(args))

Closers == { <<>>, <<")">>, <<"]">> }

CallInputs ==
    { Input("call", << callee, args, closer, rest >>,
            callee \o <<"(">> \o CommaList(args) \o closer \o rest, allow, FALSE, NoErrno) :
        callee \in Callees, args \in ArgumentLists, closer \in Closers,
        rest \in { <<>>, <<"+","1">> }, allow \in BOOLEAN }

\* a symbol, defined (V) or not (U), at some bracket depth of an expression
Befores == { <<>>, <<"(">>, <<"(","[">>, <<"1","+">>, <<"(","1","+">>, <<"-">>,
             <<"L","E","F","T","$","(","T",",">> }

Afters == { <<>>, <<"+","1">>, <<")">>, <<")","+","1">>, <<"]",")">>, <<",","1">>,
            <<")",")",",","1">>, <<"+","(","1",")",")","+","1">>, <<" ",")"," ",",","1">> }

SymbolInputs ==
    { Input("symbol", << before, symbol, after >>, before \o symbol \o after,
            allow, firstPass, NoErrno) :
        before \in Befores, symbol \in { <<"U">>, <<"V">> }, after \in Afters,
        allow \in BOOLEAN, firstPass \in BOOLEAN }


\* a text whose open brackets, prefix operators or pending arguments fill a
\* stack: `unit` taken n times (a unit that stacks two entries, n \div 2 times)
MaxDepth == 33

Units == { <<"(">>, <<"-">>, <<"M","I","D","$","(","T",",","1",",">> }

RECURSIVE Repeated(_, _)
Repeated(unit, n) == IF n = 0 THEN <<>> ELSE unit \o Repeated(unit, n - 1)

DeepLine(unit, n, tail) == Repeated(unit, IF Len(unit) = 1 THEN n ELSE n \div 2) \o tail

DeepInputs ==
    { Input("deep", << unit, n, tail >>, DeepLine(unit, n, tail), FALSE, FALSE, NoErrno) :
        unit \in Units, n \in (MaxDepth - 2) .. MaxDepth,
        tail \in { <<"1">>, <<"1","+","1">>, <<"1","+","1","*","1">>, <<"-","1">> } }

\* EVAL on a string literal, alone or inside an expression; a quote inside
\* the literal is doubled
RECURSIVE Quoted(_)
Quoted(text) ==
    IF text = <<>> THEN <<>>
    ELSE (IF Head(text) = "\"" THEN <<"\"", "\"">> ELSE << Head(text) >>) \o Quoted(Tail(text))

EvalCall(text) == <<"E","V","A","L","(","\"">> \o Quoted(text) \o <<"\"",")">>

Evaluated == { <<>>, <<"U">>, <<"1","+","U">>, <<"1","+","2">>, <<"(","U">>, <<"1",")">>,
               <<"2",",","U">>, EvalCall(<<"U">>), EvalCall(<<"3">>) }

EvalInputs ==
    { Input("eval", << before, text, after >>, before \o EvalCall(text) \o after,
            allow, firstPass, NoErrno) :
        before \in { <<>>, <<"1","+">>, <<"(">> }, text \in Evaluated,
        after \in { <<>>, <<"+","1">>, <<")">>, <<",","1">> },
        allow \in BOOLEAN, firstPass \in BOOLEAN }

\* VAL("1E999")*0+2^3: strtod stores ERANGE before the power is evaluated
StaleErrnoLine ==
    <<"V","A","L","(","\"","1","E","9","9","9","\"",")","*","0","+","2","^","3">>

\* the lines the specification gives as examples, and lines that show a
\* behaviour of the code
Examples == { <<"1","+","2",")">>, <<"(","1","+","2">>, <<"F","O","O","+","1">>,
              <<"F","O","O","+","1",",","2">>,
              EvalCall(<<"F","O","O">>) \o <<"+","1">>,
              StaleErrnoLine }

ExampleInputs ==
    { Input("example", << line >>, line, allow, firstPass, NoErrno) :
        line \in Examples, allow \in BOOLEAN, firstPass \in BOOLEAN }

Inputs == BinaryInputs \cup TokenInputs \cup CallInputs \cup SymbolInputs
          \cup DeepInputs \cup EvalInputs \cup ExampleInputs

(***************************************************************************)
(* The specification                                                       *)
(***************************************************************************)
\* a caller constructs a LineParser on the line and calls EvaluateExpression
Init ==
    /\ input \in Inputs
    /\ frames = << NewFrame(input.line, input.allow) >>
    /\ errno = input.errno
    /\ isFirstPass = input.firstPass
    /\ exception = ""
    /\ order = <<>>

Next ==
    \/ EndOfSubStatement
    \/ ReadValue
    \/ ReadUnaryOperator
    \/ ReadOpenBracket
    \/ PopForUnaryOperator
    \/ PushUnaryOperator
    \/ UnrecognisedBinaryOperator
    \/ ReadBinaryOperator
    \/ PopForBinaryOperator
    \/ PushBinaryOperator
    \/ ReadCloseBracketOrSeparator
    \/ PopForCloseBracket
    \/ FoundMatchingBracket
    \/ NoMatchingBracket
    \/ PurgeOperatorStack
    \/ ReturnValue
    \/ ReturnToEval

Spec == Init /\ [][Next]_vars


(***************************************************************************)
(* Properties                                                              *)
(***************************************************************************)
\* how the outermost call ended
Finished == Returned \/ exception # ""

Success(v) == [error |-> "", value |-> v]
Failure(e) == [error |-> e, value |-> UntrackedNumber]

Outcome == IF exception # "" THEN Failure(exception) ELSE Success(Result)

\* the ways handler h2 on (y, z) followed by handler h1 on (x, its result) can
\* end when entered with errno en: x h1 (y h2 z)
RightGrouped(h1, h2, x, y, z, en) ==
    UNION { IF o.error # "" THEN { Failure(o.error) }
            ELSE { IF q.error # "" THEN Failure(q.error) ELSE Success(Top(q.vs)) :
                     q \in Exec(h1, << x, Top(o.vs) >>, o.errno) } :
            o \in Exec(h2, << y, z >>, en) }

\* (x h1 y) h2 z
LeftGrouped(h1, h2, x, y, z, en) ==
    UNION { IF o.error # "" THEN { Failure(o.error) }
            ELSE { IF q.error # "" THEN Failure(q.error) ELSE Success(Top(q.vs)) :
                     q \in Exec(h2, << Top(o.vs), z >>, o.errno) } :
            o \in Exec(h1, << x, y >>, en) }

\* the parts of a "binary" input
Shape     == input.parts[1]
OperandA  == IntVal(input.parts[2])
OperandB  == IntVal(input.parts[4])
OperandC  == IntVal(input.parts[6])
Operator1 == m_gaBinaryOperatorTable[input.parts[3]]
Operator2 == m_gaBinaryOperatorTable[input.parts[5]]

AsRightGrouped ==
    Outcome \in RightGrouped(Operator1.handler, Operator2.handler,
                             OperandA, OperandB, OperandC, input.errno)

AsLeftGrouped ==
    Outcome \in LeftGrouped(Operator1.handler, Operator2.handler,
                            OperandA, OperandB, OperandC, input.errno)

Ends(line, v) == input.line = line /\ input.errno = NoErrno => Returned /\ Result = v

\* C1 -- binary operator precedence: a call on `a op1 b op2 c` without
\* brackets, op2 of strictly higher precedence than op1, ends as a op1 (b op2 c)
\* does (the same value, or the same exception); brackets override the
\* precedence, `(a op1 b) op2 c` ends as the left grouping and `a op1 (b op2 c)`
\* as the right one; `1 + 2 * 3` is 7 and `(1 + 2) * 3` is 9.
C1_Precedence ==
    Finished /\ input.family = "binary" =>
        /\ Shape = "flat" /\ Operator2.precedence > Operator1.precedence => AsRightGrouped
        /\ Shape = "left" => AsLeftGrouped
        /\ Shape = "right" => AsRightGrouped
        /\ Ends(<<"1"," ","+"," ","2"," ","*"," ","3">>, IntVal(7))
        /\ Ends(<<"(","1"," ","+"," ","2",")"," ","*"," ","3">>, IntVal(9))

C1_Witness ==
    /\ Returned
    /\ input.line = <<"1"," ","+"," ","2"," ","*"," ","3">>
    /\ Operator2.precedence > Operator1.precedence
    /\ Result = IntVal(7)

\* the handlers of the infix operators
InfixHandlers == { m_gaBinaryOperatorTable[i].handler : i \in InfixRows }

\* no infix operator lies on an operator of its own or a higher precedence
InfixStacked(f) ==
    \A k \in 2 .. Len(f.operatorStack) :
        f.operatorStack[k].handler \in InfixHandlers =>
            f.operatorStack[k - 1].precedence < f.operatorStack[k].precedence

\* C2 -- infix operators of equal precedence are left-associative: an infix
\* operator is pushed only when every stacked operator of the same or a higher
\* precedence above the nearest bracket has been popped and executed, and a
\* call on `a op1 b op2 c` with prec(op1) = prec(op2) ends as (a op1 b) op2 c
\* does; `10 - 4 - 3` is 3 and `8 / 4 / 2` is 1.
C2_LeftAssociative ==
    /\ \A i \in DOMAIN frames : InfixStacked(frames[i])
    /\ Finished /\ input.family = "binary" =>
        /\ Shape = "flat" /\ Operator1.precedence = Operator2.precedence => AsLeftGrouped
        /\ Ends(<<"1","0"," ","-"," ","4"," ","-"," ","3">>, IntVal(3))
        /\ Ends(<<"8"," ","/"," ","4"," ","/"," ","2">>, IntVal(1))

C2_Witness ==
    /\ Returned
    /\ input.line = <<"1","0"," ","-"," ","4"," ","-"," ","3">>
    /\ Operator1.precedence = Operator2.precedence
    /\ Result = IntVal(3)

PowerChain ==
    /\ input.family = "binary"
    /\ Shape = "flat"
    /\ Operator1.handler = "EvalPower"
    /\ Operator2.handler = "EvalPower"

\* C3 -- the power operator binds like every other infix operator, to the
\* left: a call on `a ^ b ^ c` ends as (a ^ b) ^ c does, so `2 ^ 3 ^ 2` is 64.
C3_PowerLeftAssociative ==
    Finished =>
        /\ PowerChain => AsLeftGrouped
        /\ Ends(<<"2"," ","^"," ","3"," ","^"," ","2">>, IntVal(64))

C3_Witness ==
    /\ Returned
    /\ PowerChain
    /\ input.line = <<"2"," ","^"," ","3"," ","^"," ","2">>
    /\ Result = IntVal(64)

\* C3 as the specification states it: `a ^ b ^ c` evaluates as a ^ (b ^ c), so
\* `2 ^ 3 ^ 2` is 512
C3_PowerRightBinding ==
    Finished =>
        /\ PowerChain => AsRightGrouped
        /\ Ends(<<"2"," ","^"," ","3"," ","^"," ","2">>, IntVal(512))


IsOpenBracket(op) == op.handler = NULL

\* the number of open-bracket sentinels on an operator stack
OpenBrackets(stack) == Cardinality({ k \in DOMAIN stack : IsOpenBracket(stack[k]) })

CloseBrackets == { ")", "]" }

\* C4 -- whenever EvaluateExpression returns a value (the exit through the
\* permitted unmatched close bracket included) the value stack holds exactly
\* one value and the operator stack is empty, and the assertion
\* m_valueStackPtr <= 1 after the purge never fails.
C4_StacksAtReturn ==
    /\ exception # "AssertionFailed"
    /\ \A i \in DOMAIN frames :
        /\ frames[i].pc = "return" =>
              Len(frames[i].valueStack) = 1 /\ frames[i].operatorStack = <<>>
        /\ Running /\ frames[i].pc = "purge" /\ frames[i].operatorStack = <<>> =>
              Len(frames[i].valueStack) <= 1

\* a value returned through the unmatched close bracket, after a reduction
C4_Witness ==
    /\ Returned
    /\ input.allow
    /\ frames[1].bracketCount = -1
    /\ input.line = <<"1","+","2",")">>
    /\ frames[1].valueStack = << IntVal(3) >>
    /\ frames[1].operatorStack = <<>>

\* a function token of the unary table
IsFunction(op) == Len(op.token) > 1 /\ op.token[Len(op.token)] = "("

\* the parts of a "call" input
Callee       == input.parts[1]
CallArgs     == input.parts[2]
CallCloser   == input.parts[3]
SimpleArgs   == \A k \in DOMAIN CallArgs : CallArgs[k] \in Arguments
CalleeRow    == MatchToken(m_gaUnaryOperatorTable, Callee \o <<"(">>, 0)
\* the number of parameters the bracket of the call takes
CalleeArity  ==
    IF Callee # <<>> /\ IsFunction(m_gaUnaryOperatorTable[CalleeRow])
    THEN m_gaUnaryOperatorTable[CalleeRow].parameterCount
    ELSE 1

\* the sentinel at position k of the stack of f was pushed right after a
\* function token
AfterFunction(f, k) == k > 1 /\ IsFunction(f.operatorStack[k - 1])

\* what a step that finds the matching bracket does, by the sentinel's count
C5_Step ==
    LET f == This
        bracket == Top(f.operatorStack)
    IN  /\ Running /\ f.pc = "close" /\ f.operatorStack # <<>> /\ IsOpenBracket(bracket) =>
            IF f.separator
            THEN IF bracket.parameterCount = 0 THEN exception' = "ParameterCount"
                 ELSE /\ exception' = ""
                      /\ This'.operatorStack =
                            SetTop(f.operatorStack,
                                   [bracket EXCEPT !.parameterCount = @ - 1])
                      /\ This'.bracketCount = f.bracketCount
                      /\ This'.expected = VALUE_OR_UNARY
            ELSE IF bracket.parameterCount # 0 THEN exception' = "ParameterCount"
                 ELSE /\ exception' = ""
                      /\ This'.operatorStack = SubSeq(f.operatorStack, 1, Len(f.operatorStack) - 1)
        \* a separator never changes bracketCount
        /\ Running /\ f.pc = "loop" /\ Len(frames') = Len(frames) /\ This'.separator
              /\ This'.pc = "close" => This'.bracketCount = f.bracketCount

C5_State ==
    /\ \A i \in DOMAIN frames :
        LET f == frames[i]
        IN  /\ \A k \in DOMAIN f.operatorStack :
                  IsOpenBracket(f.operatorStack[k]) =>
                      /\ f.operatorStack[k].parameterCount >= 0
                      /\ IF AfterFunction(f, k)
                         THEN f.operatorStack[k].parameterCount
                                  <= f.operatorStack[k - 1].parameterCount - 1
                         ELSE f.operatorStack[k].parameterCount = 0
            \* while a separator is processed, and between tokens, every open
            \* bracket counted has its sentinel on the stack
            /\ Running /\ (f.pc = "loop" \/ (f.pc = "close" /\ f.separator)) =>
                  OpenBrackets(f.operatorStack) = f.bracketCount
    /\ Finished /\ input.family = "call" /\ CallCloser # <<>> /\ CallArgs # <<>>
           /\ Callee # <<">","-">> =>
          IF SimpleArgs /\ Len(CallArgs) = CalleeArity THEN exception # "ParameterCount"
          ELSE IF SimpleArgs \/ CallArgs[1] = <<"(","1",",","1",")">>
                  \/ Len(CallArgs) # CalleeArity
          THEN exception = "ParameterCount"
          ELSE TRUE

\* C5 -- function arity is enforced by comma counting on the open-bracket
\* sentinel: the bracket of a function of N parameters takes N - 1 commas and
\* a plain bracket none; a comma at a count of 0 raises ParameterCount, a
\* close bracket at a count other than 0 raises ParameterCount; a comma that
\* is accepted leaves the sentinel on the operator stack with its count one
\* lower and does not change bracketCount.  So a closed call with k >= 1
\* arguments ends in ParameterCount exactly when k is not N.
C5_Arity == []C5_State /\ [][C5_Step]_vars

\* LEFT$(T,1), two arguments for two parameters, has returned "a"
C5_Witness ==
    /\ Returned
    /\ input.family = "call"
    /\ Callee = <<"L","e","f","t","$">>
    /\ CallArgs = << <<"T">>, <<"1">> >>
    /\ CallCloser = <<")">>
    /\ Result = Str(<<"a">>)


\* a close bracket has been read and no open bracket is on the operator stack
UnmatchedClose(f) == f.pc = "close" /\ ~f.separator /\ f.operatorStack = <<>>

\* the column of f is on a close bracket
OnCloseBracket(f) == f.column < Len(f.line) /\ CharAt(f.line, f.column) \in CloseBrackets

\* the step taken on an unmatched close bracket
C6_Step ==
    LET f == This
    IN  Running /\ UnmatchedClose(f) =>
            IF f.bAllowOneMismatchedCloseBracket
            THEN /\ exception' = ""
                 /\ This'.column = f.column - 1
                 /\ OnCloseBracket(This')
                 /\ This'.pc = "purge"
                 /\ This'.valueStack = f.valueStack
            ELSE /\ exception' = "MismatchedParentheses"
                 /\ frames'[Len(frames)].pc # "return"

C6_State ==
    /\ \A i \in DOMAIN frames :
        LET f == frames[i]
        IN  \* the loop was left through the unmatched close bracket
            f.bracketCount < 0 /\ f.pc \in {"purge", "return"} /\ Running =>
                /\ f.bAllowOneMismatchedCloseBracket
                /\ f.operatorStack = <<>>
                /\ Len(f.valueStack) = 1
                /\ OnCloseBracket(f)
    /\ Finished /\ input.line = <<"1","+","2",")">> =>
          IF input.allow
          THEN Returned /\ Result = IntVal(3) /\ frames[1].column = 3
          ELSE exception = "MismatchedParentheses"

\* C6 -- unmatched close bracket: when a ) or ] is read in the BINARY state and
\* the search finds no open bracket on the operator stack, then with
\* bAllowOneMismatchedCloseBracket every stacked operator has been executed,
\* the column is moved back by one onto the close bracket, the loop is left and
\* the reduced value is returned (`1+2)` returns 3 with the column on the
\* bracket); without it MismatchedParentheses is raised and no value is returned.
C6_UnmatchedClose == []C6_State /\ [][C6_Step]_vars

C6_Witness ==
    /\ Returned
    /\ input.line = <<"1","+","2",")">>
    /\ input.allow
    /\ Result = IntVal(3)
    /\ frames[1].column = 3
    /\ CharAt(frames[1].line, frames[1].column) = ")"

\* the activation is purging a stack that holds an open bracket, or waits in
\* that purge for a nested evaluation
Draining(f) ==
    /\ f.pc = "purge" \/ (f.pc = "eval" /\ f.resume = "purge")
    /\ OpenBrackets(f.operatorStack) > 0

C7_Step ==
    Running =>
        \A i \in DOMAIN frames :
            Draining(frames[i]) =>
                /\ exception' # "" \/ (i \in DOMAIN frames' /\ Draining(frames'[i]))
                /\ i = Len(frames) /\ frames[i].pc = "purge"
                       /\ IsOpenBracket(Top(frames[i].operatorStack)) =>
                      exception' = "MismatchedParentheses"

C7_State ==
    /\ \A i \in DOMAIN frames :
          \* the text ended inside a bracket: the purge meets its sentinel
          Running /\ frames[i].pc \in {"purge", "return"} /\ frames[i].bracketCount > 0 =>
              frames[i].pc = "purge" /\ OpenBrackets(frames[i].operatorStack) > 0
    /\ Finished /\ input.line = <<"(","1","+","2">> => exception = "MismatchedParentheses"

\* C7 -- unclosed open bracket: when the text ends while an open-bracket
\* sentinel is on the operator stack, the call never returns a value: each step
\* of the purge executes an operator above the sentinel, which raises or leaves
\* the sentinel where it is, and the step that reaches the sentinel raises
\* MismatchedParentheses (`(1+2`).
C7_UnclosedBracket == []C7_State /\ [][C7_Step]_vars

\* `(1+2`: the purge has executed the + and met the sentinel
C7_Witness ==
    /\ exception = "MismatchedParentheses"
    /\ input.line = <<"(","1","+","2">>
    /\ frames[1].pc = "purge"
    /\ frames[1].valueStack = << IntVal(3) >>
    /\ frames[1].operatorStack = <<>>

\* the parser is about to call GetValue, which will raise SymbolNotDefined
AtUndefinedSymbol ==
    /\ AtLoop
    /\ Advance.more
    /\ This.expected = VALUE_OR_UNARY
    /\ UnaryToken = 0
    /\ ~StackFull(This.valueStack, MAX_VALUES)
    /\ GetValue(This.line, Advance.column).error = "SymbolNotDefined"

C8_Step ==
    LET f == This
    IN  AtUndefinedSymbol =>
            /\ exception' = "SymbolNotDefined"
            /\ Len(frames') = Len(frames)
            /\ This'.valueStack = f.valueStack
            /\ This'.pc # "return"
            /\ This'.skipExpressionCalls =
                  IF isFirstPass
                  THEN << << f.bracketCount, f.bAllowOneMismatchedCloseBracket >> >>
                  ELSE <<>>
            /\ ~isFirstPass =>
                  This'.column = GetValue(f.line, Advance.column).column

C8_State ==
    \A i \in DOMAIN frames :
        /\ Len(frames[i].skipExpressionCalls) <= 1
        /\ frames[i].skipExpressionCalls # <<>> =>
              isFirstPass /\ exception = "SymbolNotDefined" /\ i = Len(frames)

\* C8 -- forward-reference protocol: when GetValue raises SymbolNotDefined
\* inside EvaluateExpression, on the first pass SkipExpression is called
\* exactly once, with the bracketCount of that moment and the
\* bAllowOneMismatchedCloseBracket flag, before SymbolNotDefined is raised to
\* the caller; on the second pass SkipExpression is not called and the column
\* stays where GetValue left it.  In neither pass is a value pushed or returned.
C8_ForwardReference == []C8_State /\ [][C8_Step]_vars

\* first pass, `(1+U...`: one SkipExpression call at bracket depth 1
C8_Witness ==
    /\ exception = "SymbolNotDefined"
    /\ isFirstPass
    /\ input.family = "symbol"
    /\ input.parts[1] = <<"(","1","+">>
    /\ frames[1].skipExpressionCalls = << << 1, input.allow >> >>
    /\ frames[1].valueStack = << IntVal(1) >>


\* the column of f is where SkipExpression leaves it: at the end of the
\* sub-statement or, when one is allowed, on an unmatched close bracket
PastExpression(f) ==
    LET a == AdvanceAndCheckEndOfSubStatement(f.line, f.column, TRUE)
    IN  \/ ~a.more
        \/ f.bAllowOneMismatchedCloseBracket /\ CharAt(f.line, a.column) \in CloseBrackets

\* C9 -- on the first pass every EvaluateExpression call that ends with
\* SymbolNotDefined has run SkipExpression on the parser the caller invoked and
\* leaves its column past the expression, whether that parser read the
\* undefined symbol itself or a handler such as EVAL met it in a nested
\* evaluation.
C9_CallerCursorPastExpression ==
    exception = "SymbolNotDefined" /\ isFirstPass =>
        /\ frames[1].skipExpressionCalls # <<>>
        /\ PastExpression(frames[1])

\* the part of C9 the code keeps: the parser that read the undefined symbol
\* itself is left past its expression
C9_ReaderCursorPastExpression ==
    exception = "SymbolNotDefined" /\ isFirstPass =>
        /\ This.skipExpressionCalls # <<>>
        /\ PastExpression(This)

\* the state `EVAL("FOO")+1` ends in on the first pass
C9_Diverges ==
    /\ exception = "SymbolNotDefined"
    /\ isFirstPass
    /\ input.line = EvalCall(<<"F","O","O">>) \o <<"+","1">>
    /\ Len(frames) = 2
    /\ frames[1].skipExpressionCalls = <<>>
    /\ CharAt(frames[1].line, frames[1].column) = "1"
    /\ frames[2].skipExpressionCalls # <<>>

\* a step of the running activation that attempts a push
PushesValue ==
    AtLoop /\ Advance.more /\ This.expected = VALUE_OR_UNARY /\ UnaryToken = 0

PushesOpenBracket ==
    /\ AtLoop /\ Advance.more /\ This.expected = VALUE_OR_UNARY /\ UnaryToken # 0
    /\ IsOpenBracket(m_gaUnaryOperatorTable[UnaryToken])

PushesOperator ==
    /\ Running
    /\ \/ This.pc = "unary" /\ ~(This.operatorStack # <<>>
                                 /\ UnaryPops(This.thisOp, Top(This.operatorStack)))
       \/ This.pc = "binary" /\ ~(This.operatorStack # <<>>
                                  /\ BinaryPops(This.thisOp, Top(This.operatorStack)))

\* the stacks of the running activation are not touched
StacksKept ==
    /\ Len(frames') = Len(frames)
    /\ This'.valueStack = This.valueStack
    /\ This'.operatorStack = This.operatorStack

C10_Step ==
    /\ PushesValue /\ Len(This.valueStack) = MAX_VALUES =>
          exception' = "ExpressionTooComplex" /\ StacksKept
    /\ (PushesOpenBracket \/ PushesOperator) /\ Len(This.operatorStack) = MAX_OPERATORS =>
          exception' = "ExpressionTooComplex" /\ StacksKept

C10_State ==
    \A i \in DOMAIN frames :
        /\ Len(frames[i].valueStack) <= MAX_VALUES
        /\ Len(frames[i].operatorStack) <= MAX_OPERATORS

\* C10 -- bounded stacks: in every reachable state the value-stack pointer is
\* within 0 .. MAX_VALUES and the operator-stack pointer within
\* 0 .. MAX_OPERATORS, and an attempt to push a value, a prefix operator, an
\* open bracket or an infix operator onto a full stack raises
\* ExpressionTooComplex with both stacks as they were.
C10_BoundedStacks == []C10_State /\ [][C10_Step]_vars

\* the value stack was full when one more value was read
C10_Witness ==
    /\ exception = "ExpressionTooComplex"
    /\ Len(This.valueStack) = MAX_VALUES
    /\ This.pc = "loop"
    /\ This.expected = VALUE_OR_UNARY

\* what a call on `a op1 b op2 c` gives when errno is 0 at entry
CleanOutcomes ==
    IF Operator2.precedence > Operator1.precedence
    THEN RightGrouped(Operator1.handler, Operator2.handler, OperandA, OperandB, OperandC, NoErrno)
    ELSE LeftGrouped(Operator1.handler, Operator2.handler, OperandA, OperandB, OperandC, NoErrno)

\* C11 -- determinism, no persistent engine state: a call on a pure expression
\* `a op1 b op2 c` ends the same way (the same value or the same exception)
\* whatever was evaluated before it, that is whatever value an earlier
\* evaluation or handler left in errno; nothing but the external collaborators
\* carries over.
C11_NoPersistentState ==
    Finished /\ input.family = "binary" /\ Shape = "flat" => Outcome \in CleanOutcomes

\* VAL("1E999")*0+2^3, entered with errno 0: the power of 2 and 3 has raised
\* NumberTooBig on the ERANGE the earlier VAL left behind
C11_Diverges ==
    /\ input.line = StaleErrnoLine
    /\ input.errno = NoErrno
    /\ exception = "NumberTooBig"
    /\ errno = ERANGE
    /\ Top(This.valueStack) = IntVal(8)

(***************************************************************************)
(* Value semantics: calls on lines built from literals, so that what the   *)
(* handlers compute is read off the result of EvaluateExpression.          *)
(***************************************************************************)
\* a numeric literal, with or without a minus sign before it, and the number
\* it denotes: wraps * 2^32 + rest (+ 1/2 when half), INT_MIN <= rest <= INT_MAX
Literal(text, wraps, rest, half) ==
    [ text |-> text, wraps |-> wraps, rest |-> rest, half |-> half, nan |-> FALSE ]

Literals ==
    {
      Literal(<<"0">>, 0, 0, FALSE),
      Literal(<<"1">>, 0, 1, FALSE),
      Literal(<<"1","5">>, 0, 15, FALSE),
      Literal(<<"2","5","5">>, 0, 255, FALSE),
      Literal(<<"2","5","6">>, 0, 256, FALSE),
      Literal(<<"4","6","6","0">>, 0, 4660, FALSE),
      Literal(<<"&","F","F">>, 0, 255, FALSE),
      Literal(<<"&","0","F">>, 0, 15, FALSE),
      Literal(<<"&","8","0","0","0">>, 0, 32768, FALSE),
      Literal(<<"&","F","F","F","F">>, 0, 65535, FALSE),
      Literal(<<"6","5","5","3","6">>, 0, 65536, FALSE),
      Literal(<<"&","1","2","3","4","5">>, 0, 74565, FALSE),
      Literal(<<"2","1","4","7","4","8","3","6","4","7">>, 0, INT_MAX, FALSE),
      Literal(<<"&","7","F","F","F","F","F","F","F">>, 0, INT_MAX, FALSE),
      Literal(<<"2","1","4","7","4","8","3","6","4","8">>, 1, INT_MIN, FALSE),
      Literal(<<"&","8","0","0","0","0","0","0","0">>, 1, INT_MIN, FALSE),
      Literal(<<"3","0","0","0","0","0","0","0","0","0">>, 1, -1294967296, FALSE),
      Literal(<<"&","F","F","F","F","F","F","0","0">>, 1, -256, FALSE),
      Literal(<<"4","2","9","4","9","6","7","2","9","5">>, 1, -1, FALSE),
      Literal(<<"&","F","F","F","F","F","F","F","F">>, 1, -1, FALSE),
      Literal(<<"4","2","9","4","9","6","7","2","9","6">>, 1, 0, FALSE),
      Literal(<<"9","9","9","9","9","9","9","9","9","9">>, 2, 1410065407, FALSE),
      Literal(<<"0",".","5">>, 0, 0, TRUE),
      Literal(<<"1",".","5">>, 0, 1, TRUE),
      Literal(<<"2","1","4","7","4","8","3","6","4","7",".","5">>, 0, INT_MAX, TRUE),
      Literal(<<"4","2","9","4","9","6","7","2","9","5",".","5">>, 1, -1, TRUE),
      Literal(<<"-","1">>, 0, -1, FALSE),
      Literal(<<"-","2","5","6">>, 0, -256, FALSE),
      Literal(<<"-","4","6","6","0">>, 0, -4660, FALSE),
      Literal(<<"-","6","5","5","3","6">>, 0, -65536, FALSE),
      Literal(<<"-","2","1","4","7","4","8","3","6","4","7">>, 0, -INT_MAX, FALSE),
      Literal(<<"-","2","1","4","7","4","8","3","6","4","8">>, 0, INT_MIN, FALSE),
      Literal(<<"-","2","1","4","7","4","8","3","6","4","9">>, -1, INT_MAX, FALSE),
      Literal(<<"-","4","2","9","4","9","6","7","2","9","6">>, -1, 0, FALSE),
      Literal(<<"-","0",".","5">>, 0, -1, TRUE),
      Literal(<<"-","1",".","5">>, 0, -2, TRUE),
      Literal(<<"-","2","1","4","7","4","8","3","6","4","8",".","5">>, -1, INT_MAX, TRUE)
    }

\* VAL("NAN"): strtod reads a NaN
NaNText == <<"V","A","L","(","\"","N","A","N","\"",")">>

NotANumber == [ text |-> NaNText, wraps |-> 0, rest |-> 0, half |-> FALSE, nan |-> TRUE ]

\* INT_MIN <= v <= UINT_MAX for the number v a literal denotes
InIntegerRange(x) ==
    /\ ~x.nan
    /\ \/ x.wraps = 0
       \/ x.wraps = 1 /\ x.rest < 0 /\ ~(x.rest = -1 /\ x.half)

\* name( argument )
Call(name, argument) == name \o <<"(">> \o argument \o <<")">>

\* INT(x) for every literal x and for the NaN
ConvertInputs ==
    { Input("convert", << x >>, Call(<<"I","N","T">>, x.text), FALSE, FALSE, NoErrno) :
        x \in Literals \cup { NotANumber } }

\* x AND y, x OR y, x EOR y
BitwiseTokens == { <<"A","N","D">>, <<"O","R">>, <<"E","O","R">> }

BitwiseOperands == { x \in Literals : x.text \in { <<"&","F","F","F","F","F","F","F","F">>, <<"&","F","F">>, <<"&","0","F">>, <<"-","1">>, <<"4","6","6","0">>, <<"2","1","4","7","4","8","3","6","4","8">> } }

BitwiseInputs ==
    { Input("bitwise", << x, op, y >>, Spaced(<< x.text, op, y.text >>), FALSE, FALSE, NoErrno) :
        x \in BitwiseOperands, op \in BitwiseTokens, y \in BitwiseOperands }
\* an operand of a comparison: a literal, its type, and its place in the order
\* of the literals of its type (the numbers by value, the strings byte by byte)
Operand(text, type, rank) == [ text |-> text, type |-> type, rank |-> rank ]

CompareOperands ==
    {
      Operand(<<"-","1">>, NumberValue, 1),
      Operand(<<"1">>, NumberValue, 2),
      Operand(<<"1",".","5">>, NumberValue, 3),
      Operand(<<"2">>, NumberValue, 4),
      Operand(<<"\"","\"">>, StringValue, 1),
      Operand(<<"\"","A","\"">>, StringValue, 2),
      Operand(<<"\"","A","B","\"">>, StringValue, 3),
      Operand(<<"\"","B","\"">>, StringValue, 4),
      Operand(<<"\"","a","\"">>, StringValue, 5)
    }

Relations ==
    {
      [ token |-> <<"=">>, relation |-> "eq" ],
      [ token |-> <<"=","=">>, relation |-> "eq" ],
      [ token |-> <<"<",">">>, relation |-> "ne" ],
      [ token |-> <<"!","=">>, relation |-> "ne" ],
      [ token |-> <<"<">>, relation |-> "lt" ],
      [ token |-> <<"<","=">>, relation |-> "le" ],
      [ token |-> <<">">>, relation |-> "gt" ],
      [ token |-> <<">","=">>, relation |-> "ge" ]
    }

Bracketed(texts) == <<"(">> \o Flatten(texts) \o <<")">>

\* a rel b, (a=b) OR (a<>b), and (a<b)+(a=b)+(a>b)
CompareInputs ==
    { Input("compare", << a, rel, b >>, Spaced(<< a.text, rel.token, b.text >>),
            FALSE, FALSE, NoErrno) :
        a \in CompareOperands, rel \in Relations, b \in CompareOperands }
    \cup
    { Input("either", << a, b >>,
            Spaced(<< Bracketed(<< a.text, <<"=">>, b.text >>), <<"O","R">>,
                      Bracketed(<< a.text, <<"<",">">>, b.text >>) >>),
            FALSE, FALSE, NoErrno) :
        a \in CompareOperands, b \in CompareOperands }
    \cup
    { Input("one of three", << a, b >>,
            Bracketed(<< a.text, <<"<">>, b.text >>) \o <<"+">>
            \o Bracketed(<< a.text, <<"=">>, b.text >>) \o <<"+">>
            \o Bracketed(<< a.text, <<">">>, b.text >>),
            FALSE, FALSE, NoErrno) :
        a \in CompareOperands, b \in CompareOperands }

\* v << s, v >> s and v >> (-s) on literals that are accepted as integers
ShiftValues == { x \in Literals : x.text \in { <<"1">>,
                                             <<"-","1">>,
                                             <<"4","6","6","0">>,
                                             <<"2","5","5">>,
                                             <<"2","1","4","7","4","8","3","6","4","7">>,
                                             <<"-","2","1","4","7","4","8","3","6","4","8">>,
                                             <<"&","F","F","F","F","F","F","0","0">>,
                                             <<"&","8","0","0","0","0","0","0","0">>,
                                             <<"3","0","0","0","0","0","0","0","0","0">>,
                                             <<"-","6","5","5","3","6">> } }

ShiftCounts ==
    {
      Literal(<<"0">>, 0, 0, FALSE),
      Literal(<<"1">>, 0, 1, FALSE),
      Literal(<<"4">>, 0, 4, FALSE),
      Literal(<<"8">>, 0, 8, FALSE),
      Literal(<<"1","6">>, 0, 16, FALSE),
      Literal(<<"3","0">>, 0, 30, FALSE),
      Literal(<<"3","1">>, 0, 31, FALSE),
      Literal(<<"3","2">>, 0, 32, FALSE),
      Literal(<<"3","3">>, 0, 33, FALSE),
      Literal(<<"-","1">>, 0, -1, FALSE),
      Literal(<<"-","4">>, 0, -4, FALSE),
      Literal(<<"-","3","1">>, 0, -31, FALSE),
      Literal(<<"-","3","2">>, 0, -32, FALSE),
      Literal(<<"2","1","4","7","4","8","3","6","4","7">>, 0, INT_MAX, FALSE),
      Literal(<<"-","2","1","4","7","4","8","3","6","4","8">>, 0, INT_MIN, FALSE)
    }

ShiftTokens == { <<"<","<">>, <<">",">">> }

ShiftInputs ==
    { Input("shift", << v, op, s >>, Spaced(<< v.text, op, s.text >>), FALSE, FALSE, NoErrno) :
        v \in ShiftValues, op \in ShiftTokens, s \in ShiftCounts }
    \cup
    { Input("negated shift", << v, s >>,
            Spaced(<< v.text, <<">",">">>, <<"(","-">> \o s.text \o <<")">> >>),
            FALSE, FALSE, NoErrno) :
        v \in ShiftValues, s \in ShiftCounts }

\* a DIV b, a MOD b and a % b on literals that are accepted as integers, and
\* (a DIV b)*b+(a MOD b) on literals that are 32-bit integers as they stand
DivOperands ==
    { Literal(<<"7">>, 0, 7, FALSE),
      Literal(<<"-","7">>, 0, -7, FALSE),
      Literal(<<"2">>, 0, 2, FALSE),
      Literal(<<"-","2">>, 0, -2, FALSE),
      Literal(<<"3">>, 0, 3, FALSE) }
    \cup { x \in Literals : x.text \in { <<"0">>,
                                      <<"1">>,
                                      <<"-","1">>,
                                      <<"2","5","5">>,
                                      <<"4","6","6","0">>,
                                      <<"-","4","6","6","0">>,
                                      <<"2","1","4","7","4","8","3","6","4","7">>,
                                      <<"-","2","1","4","7","4","8","3","6","4","7">>,
                                      <<"-","2","1","4","7","4","8","3","6","4","8">>,
                                      <<"&","F","F","F","F","F","F","F","F">>,
                                      <<"2","1","4","7","4","8","3","6","4","8">>,
                                      <<"3","0","0","0","0","0","0","0","0","0">> } }

DivTokens == { <<"D","I","V">>, <<"M","O","D">>, <<"%">> }

DivInputs ==
    { Input("div", << a, op, b >>, Spaced(<< a.text, op, b.text >>), FALSE, FALSE, NoErrno) :
        a \in DivOperands, op \in DivTokens, b \in DivOperands }
    \cup
    { Input("div and mod", << a, b >>,
            Bracketed(<< a.text, <<" ","D","I","V"," ">>, b.text >>) \o <<"*">> \o b.text
            \o <<"+">> \o Bracketed(<< a.text, <<" ","M","O","D"," ">>, b.text >>),
            FALSE, FALSE, NoErrno) :
        a \in { x \in DivOperands : x.wraps = 0 /\ x.rest \in -4660 .. 4660 },
        b \in { x \in DivOperands : x.wraps = 0 /\ x.rest \in -255 .. 255 } }

\* a op b for every arithmetic, shift and bitwise operator, on Numbers and
\* Strings
TypedOperands ==
    { [ text |-> <<"3">>, type |-> NumberValue, number |-> 3, string |-> <<>> ],
      [ text |-> <<"2">>, type |-> NumberValue, number |-> 2, string |-> <<>> ],
      [ text |-> <<"\"","f","o","o","\"">>, type |-> StringValue, number |-> 0, string |-> <<"f","o","o">> ],
      [ text |-> <<"\"","b","a","r","\"">>, type |-> StringValue, number |-> 0, string |-> <<"b","a","r">> ],
      [ text |-> <<"\"","\"">>, type |-> StringValue, number |-> 0, string |-> <<>> ] }

ArithmeticTokens ==
    { <<"+">>, <<"-">>, <<"*">>, <<"/">>, <<"^">>, <<"D","I","V">>, <<"M","O","D">>, <<"%">>,
      <<"<","<">>, <<">",">">>, <<"A","N","D">>, <<"O","R">>, <<"E","O","R">> }

TypedInputs ==
    { Input("typed", << a, op, b >>, Spaced(<< a.text, op, b.text >>), FALSE, FALSE, NoErrno) :
        a \in TypedOperands, op \in ArithmeticTokens, b \in TypedOperands }

\* HI(x), LO(x), >x, <x, >(x), <(x), HI(x)*256+LO(x) and x AND &FFFF for every
\* literal x that is an integer accepted by the coercion
ByteForms ==
    {
      [ open |-> <<"H","I","(">>, close |-> <<")">>, high |-> TRUE, prefix |-> FALSE ],
      [ open |-> <<"L","O","(">>, close |-> <<")">>, high |-> FALSE, prefix |-> FALSE ],
      [ open |-> <<">">>, close |-> <<>>, high |-> TRUE, prefix |-> TRUE ],
      [ open |-> <<"<">>, close |-> <<>>, high |-> FALSE, prefix |-> TRUE ],
      [ open |-> <<">","(">>, close |-> <<")">>, high |-> TRUE, prefix |-> FALSE ],
      [ open |-> <<"<","(">>, close |-> <<")">>, high |-> FALSE, prefix |-> FALSE ]
    }

Coercible == { x \in Literals : InIntegerRange(x) /\ ~x.half }

ByteInputs ==
    { Input("byte", << form, x >>, form.open \o x.text \o form.close, FALSE, FALSE, NoErrno) :
        form \in ByteForms, x \in Coercible }
    \cup
    { Input("word", << x >>,
            Call(<<"H","I">>, x.text) \o <<"*","2","5","6","+">> \o Call(<<"L","O">>, x.text),
            FALSE, FALSE, NoErrno) : x \in Coercible }
    \cup
    { Input("word", << x >>, Spaced(<< x.text, <<"A","N","D">>, <<"&","F","F","F","F">> >>),
            FALSE, FALSE, NoErrno) : x \in Coercible }

\* calls of /, ^ and the functions that test errno, with the result or the
\* exception their operands call for; each is evaluated alone, entered with
\* errno as an earlier evaluation left it, and after VAL("1E999")*0 in the same
\* expression, entered with errno 0
MathCall(text, error, value) == [ text |-> text, error |-> error, value |-> value ]

MathCalls ==
    {
      MathCall(<<"S","Q","R","(","4",")">>, "", 2),
      MathCall(<<"S","Q","R","(","-","1",")">>, "IllegalOperation", 0),
      MathCall(<<"6","/","3">>, "", 2),
      MathCall(<<"1","/","0">>, "DivisionByZero", 0),
      MathCall(<<"A","S","N","(","0",")">>, "", 0),
      MathCall(<<"A","S","N","(","2",")">>, "IllegalOperation", 0),
      MathCall(<<"A","C","S","(","1",")">>, "", 0),
      MathCall(<<"A","C","S","(","-","2",")">>, "IllegalOperation", 0),
      MathCall(<<"L","O","G","(","1",")">>, "", 0),
      MathCall(<<"L","O","G","(","-","1",")">>, "IllegalOperation", 0),
      MathCall(<<"L","N","(","1",")">>, "", 0),
      MathCall(<<"L","N","(","-","1",")">>, "IllegalOperation", 0),
      MathCall(<<"E","X","P","(","0",")">>, "", 1),
      MathCall(<<"E","X","P","(","1","0","0","0",")">>, "IllegalOperation", 0),
      MathCall(<<"2","^","3">>, "", 8),
      MathCall(<<"0","^","-","1">>, "NumberTooBig", 0),
      MathCall(<<"(","-","8",")","^","0",".","5">>, "IllegalOperation", 0)
    }

Overflowed == <<"V","A","L","(","\"","1","E","9","9","9","\"",")","*","0","+">>

MathInputs ==
    { Input("math", << c >>, c.text, FALSE, FALSE, en) : c \in MathCalls, en \in ErrnoValues }
    \cup
    { Input("math after", << c >>, Overflowed \o c.text, FALSE, FALSE, NoErrno) : c \in MathCalls }

\* RND(n) for literals n up to UINT_MAX
RndArguments ==
    {
      Literal(<<"0">>, 0, 0, FALSE),
      Literal(<<"0",".","5">>, 0, 0, TRUE),
      Literal(<<"-","1">>, 0, -1, FALSE),
      Literal(<<"1">>, 0, 1, FALSE),
      Literal(<<"1",".","5">>, 0, 1, TRUE),
      Literal(<<"2">>, 0, 2, FALSE),
      Literal(<<"3">>, 0, 3, FALSE),
      Literal(<<"2","5","5">>, 0, 255, FALSE),
      Literal(<<"4","6","6","0">>, 0, 4660, FALSE),
      Literal(<<"6","5","5","3","6">>, 0, 65536, FALSE),
      Literal(<<"2","1","4","7","4","8","3","6","4","7">>, 0, INT_MAX, FALSE),
      Literal(<<"2","1","4","7","4","8","3","6","4","8">>, 1, INT_MIN, FALSE),
      Literal(<<"3","0","0","0","0","0","0","0","0","0">>, 1, -1294967296, FALSE),
      Literal(<<"&","F","F","F","F","F","F","F","F">>, 1, -1, FALSE)
    }

RndInputs ==
    { Input("rnd", << n >>, Call(<<"R","N","D">>, n.text), FALSE, FALSE, NoErrno) :
        n \in RndArguments }

\* LEFT$(s, k) and RIGHT$(s, k) for string literals s and numeric literals k,
\* with an argument of the wrong type, and LEFT$(s,k)+RIGHT$(s,LEN(s)-k)
SliceTexts == { <<>>, <<"a">>, <<"a","b","c">> }

SliceCounts ==
    {
      Literal(<<"0">>, 0, 0, FALSE),
      Literal(<<"1">>, 0, 1, FALSE),
      Literal(<<"2">>, 0, 2, FALSE),
      Literal(<<"3">>, 0, 3, FALSE),
      Literal(<<"4">>, 0, 4, FALSE),
      Literal(<<"-","1">>, 0, -1, FALSE),
      Literal(<<"0",".","5">>, 0, 0, TRUE),
      Literal(<<"1",".","5">>, 0, 1, TRUE),
      Literal(<<"3",".","5">>, 0, 3, TRUE),
      Literal(<<"-","0",".","5">>, 0, -1, TRUE),
      Literal(<<"-","1",".","5">>, 0, -2, TRUE),
      Literal(<<"2","1","4","7","4","8","3","6","4","8">>, 1, INT_MIN, FALSE),
      Literal(<<"4","2","9","4","9","6","7","2","9","5">>, 1, -1, FALSE),
      Literal(<<"4","2","9","4","9","6","7","2","9","6">>, 1, 0, FALSE),
      Literal(<<"-","2","1","4","7","4","8","3","6","4","9">>, -1, INT_MAX, FALSE),
      Literal(<<"9","9","9","9","9","9","9","9","9","9">>, 2, 1410065407, FALSE)
    }

SliceNames == { <<"L","E","F","T","$">>, <<"R","I","G","H","T","$">> }

InQuotes(s) == <<"\"">> \o s \o <<"\"">>

SliceInputs ==
    { Input("slice", << name, s, k >>, Call(name, InQuotes(s) \o <<",">> \o k.text),
            FALSE, FALSE, NoErrno) :
        name \in SliceNames, s \in SliceTexts, k \in SliceCounts }
    \cup
    { Input("slice of wrong type", << name >>, Call(name, arguments), FALSE, FALSE, NoErrno) :
        name \in SliceNames,
        arguments \in { <<"1",",","1">>, <<"\"","a","b","c","\"",",","\"","a","\"">>, <<"1",",","\"","a","\"">> } }
    \cup
    { Input("slices", << s, k >>,
            Call(<<"L","E","F","T","$">>, InQuotes(s) \o <<",">> \o k.text) \o <<"+">>
            \o Call(<<"R","I","G","H","T","$">>,
                    InQuotes(s) \o <<",">> \o Call(<<"L","E","N">>, InQuotes(s))
                    \o <<"-">> \o k.text),
            FALSE, FALSE, NoErrno) :
        s \in SliceTexts, k \in { x \in SliceCounts : ~x.half /\ x.wraps = 0 /\ x.rest >= 0 } }

\* STRING$(n, s) and LEN(STRING$(n, s)) for numeric literals n and string
\* literals s
StringCounts ==
    {
      Literal(<<"0">>, 0, 0, FALSE),
      Literal(<<"1">>, 0, 1, FALSE),
      Literal(<<"2">>, 0, 2, FALSE),
      Literal(<<"3">>, 0, 3, FALSE),
      Literal(<<"-","1">>, 0, -1, FALSE),
      Literal(<<"1",".","5">>, 0, 1, TRUE),
      Literal(<<"-","0",".","5">>, 0, -1, TRUE),
      Literal(<<"2","1","8","4","5">>, 0, 21845, FALSE),
      Literal(<<"2","1","8","4","6">>, 0, 21846, FALSE),
      Literal(<<"3","2","7","6","7">>, 0, 32767, FALSE),
      Literal(<<"3","2","7","6","8">>, 0, 32768, FALSE),
      Literal(<<"6","5","5","3","5">>, 0, 65535, FALSE),
      Literal(<<"6","5","5","3","6">>, 0, 65536, FALSE),
      Literal(<<"&","1","0","0","0","0">>, 0, 65536, FALSE),
      Literal(<<"2","1","4","7","4","8","3","6","4","7">>, 0, INT_MAX, FALSE),
      Literal(<<"2","1","4","7","4","8","3","6","4","8">>, 1, INT_MIN, FALSE),
      Literal(<<"4","2","9","4","9","6","7","2","9","5">>, 1, -1, FALSE),
      Literal(<<"4","2","9","4","9","6","7","2","9","6">>, 1, 0, FALSE),
      Literal(<<"-","2","1","4","7","4","8","3","6","4","9">>, -1, INT_MAX, FALSE)
    }

StringTexts == { <<>>, <<"a">>, <<"a","b">>, <<"a","b","c">> }

StringInputs ==
    { Input("string", << n, s >>,
            Call(<<"S","T","R","I","N","G","$">>, n.text \o <<",">> \o InQuotes(s)),
            FALSE, FALSE, NoErrno) :
        n \in StringCounts, s \in StringTexts }
    \cup
    { Input("string length", << n, s >>,
            Call(<<"L","E","N">>,
                 Call(<<"S","T","R","I","N","G","$">>, n.text \o <<",">> \o InQuotes(s))),
            FALSE, FALSE, NoErrno) :
        n \in StringCounts, s \in StringTexts }

\* CHR$(n), ASC(CHR$(n)), ASC(s) and CHR$(ASC(s)) = LEFT$(s, 1) for numeric
\* literals n and string literals s
ChrCodes ==
    Literals \cup
    {
      Literal(<<"3","1">>, 0, 31, FALSE),
      Literal(<<"6","5">>, 0, 65, FALSE),
      Literal(<<"9","6">>, 0, 96, FALSE),
      Literal(<<"1","2","7">>, 0, 127, FALSE),
      Literal(<<"&","8","0">>, 0, 128, FALSE),
      Literal(<<"2","0","0">>, 0, 200, FALSE),
      Literal(<<"6","5",".","5">>, 0, 65, TRUE),
      Literal(<<"2","5","5",".","5">>, 0, 255, TRUE),
      Literal(<<"2","5","6",".","5">>, 0, 256, TRUE)
    }

AscTexts == { <<>>, <<"a">>, <<"A","b">>, <<" ","x">>, <<"~">>, <<"$","z">>, <<"0","1","2">> }

ChrInputs ==
    { Input("chr", << n >>, Call(<<"C","H","R","$">>, n.text), FALSE, FALSE, NoErrno) :
        n \in ChrCodes }
    \cup
    { Input("asc of chr", << n >>, Call(<<"A","S","C">>, Call(<<"C","H","R","$">>, n.text)),
            FALSE, FALSE, NoErrno) : n \in ChrCodes }
    \cup
    { Input("asc", << s >>, Call(<<"A","S","C">>, InQuotes(s)), FALSE, FALSE, NoErrno) :
        s \in AscTexts }
    \cup
    { Input("chr of asc", << s >>,
            Call(<<"C","H","R","$">>, Call(<<"A","S","C">>, InQuotes(s))) \o <<"=">>
            \o Call(<<"L","E","F","T","$">>, InQuotes(s) \o <<",","1">>),
            FALSE, FALSE, NoErrno) : s \in AscTexts }

\* lines put together from atomic values and the text between them, with the
\* arguments their calls of RND are given, in the order of the calls' closing
\* brackets
Value(text) == [ text |-> text, value |-> TRUE ]
Token(text) == [ text |-> text, value |-> FALSE ]

RECURSIVE PiecesText(_)
PiecesText(pieces) ==
    IF pieces = <<>> THEN <<>> ELSE Head(pieces).text \o PiecesText(Tail(pieces))

OrderLine(pieces, arguments) ==
    Input("order", << pieces, arguments >>, PiecesText(pieces), FALSE, FALSE, NoErrno)

OrderInputs ==
    {
      OrderLine(<< Token(<<"R","N","D","(">>),
                   Value(<<"2">>),
                   Token(<<")","+","R","N","D","(">>),
                   Value(<<"3">>),
                   Token(<<")">>) >>,
                <<{2}, {3}>>),
      OrderLine(<< Token(<<"R","N","D","(">>),
                   Value(<<"3">>),
                   Token(<<")"," ","*"," ","R","N","D","(">>),
                   Value(<<"2">>),
                   Token(<<")">>) >>,
                <<{3}, {2}>>),
      OrderLine(<< Token(<<"R","N","D","(">>),
                   Value(<<"2">>),
                   Token(<<")","+","R","N","D","(">>),
                   Value(<<"3">>),
                   Token(<<")","*","R","N","D","(">>),
                   Value(<<"4">>),
                   Token(<<")">>) >>,
                <<{2}, {3}, {4}>>),
      OrderLine(<< Token(<<"R","N","D","(">>),
                   Value(<<"4">>),
                   Token(<<")","-","R","N","D","(">>),
                   Value(<<"5">>),
                   Token(<<")"," ","A","N","D"," ","R","N","D","(">>),
                   Value(<<"6">>),
                   Token(<<")">>) >>,
                <<{4}, {5}, {6}>>),
      OrderLine(<< Token(<<"R","N","D","(">>),
                   Value(<<"2">>),
                   Token(<<")","+","(","R","N","D","(">>),
                   Value(<<"3">>),
                   Token(<<")","+","R","N","D","(">>),
                   Value(<<"4">>),
                   Token(<<")",")">>) >>,
                <<{2}, {3}, {4}>>),
      OrderLine(<< Token(<<"(","R","N","D","(">>),
                   Value(<<"5">>),
                   Token(<<")","+","R","N","D","(">>),
                   Value(<<"3">>),
                   Token(<<")",")","*","R","N","D","(">>),
                   Value(<<"2">>),
                   Token(<<")">>) >>,
                <<{5}, {3}, {2}>>),
      OrderLine(<< Token(<<"R","N","D","(">>),
                   Value(<<"7">>),
                   Token(<<"+","R","N","D","(">>),
                   Value(<<"2">>),
                   Token(<<")",")">>) >>,
                <<{2}, {7, 8}>>),
      OrderLine(<< Token(<<"R","N","D","(","R","N","D","(">>),
                   Value(<<"2">>),
                   Token(<<")","+">>),
                   Value(<<"7">>),
                   Token(<<")">>) >>,
                <<{2}, {7, 8}>>),
      OrderLine(<< Token(<<"-","R","N","D","(">>),
                   Value(<<"2">>),
                   Token(<<")","+",">","R","N","D","(">>),
                   Value(<<"3","0","0">>),
                   Token(<<")">>) >>,
                <<{2}, {300}>>),
      OrderLine(<< Token(<<"H","I","(","R","N","D","(">>),
                   Value(<<"3","0","0">>),
                   Token(<<")",")","+","L","O","(","R","N","D","(">>),
                   Value(<<"4","0","0">>),
                   Token(<<")",")">>) >>,
                <<{300}, {400}>>),
      OrderLine(<< Token(<<"L","E","F","T","$","(">>),
                   Value(<<"\"","a","b","c","d","e","f","\"">>),
                   Token(<<",","R","N","D","(">>),
                   Value(<<"2">>),
                   Token(<<")",")","+","S","T","R","I","N","G","$","(","R","N","D","(">>),
                   Value(<<"3">>),
                   Token(<<")",",">>),
                   Value(<<"\"","x","\"">>),
                   Token(<<")">>) >>,
                <<{2}, {3}>>),
      OrderLine(<< Token(<<"E","V","A","L","(">>),
                   Value(<<"\"","R","N","D","(","2",")","\"">>),
                   Token(<<")","+","R","N","D","(">>),
                   Value(<<"3">>),
                   Token(<<")">>) >>,
                <<{2}, {3}>>),
      OrderLine(<< Token(<<"R","N","D","(">>),
                   Value(<<"3">>),
                   Token(<<")","+","E","V","A","L","(">>),
                   Value(<<"\"","R","N","D","(","2",")","\"">>),
                   Token(<<")">>) >>,
                <<{3}, {2}>>),
      OrderLine(<< Value(<<"*">>),
                   Token(<<"+","R","N","D","(">>),
                   Value(<<"2">>),
                   Token(<<")","*">>),
                   Value(<<"V">>),
                   Token(<<"-","R","N","D","(">>),
                   Value(<<"3">>),
                   Token(<<")">>) >>,
                <<{2}, {3}>>),
      OrderLine(<< Value(<<"1">>),
                   Token(<<"+">>),
                   Value(<<"2">>),
                   Token(<<"*">>),
                   Value(<<"3">>),
                   Token(<<"-">>),
                   Value(<<"4">>) >>,
                <<>>),
      OrderLine(<< Value(<<"V">>),
                   Token(<<" ","-"," ">>),
                   Value(<<"*">>) >>,
                <<>>)
    }

\* a numeric literal as the whole line, with the two 16-bit halves of the
\* number modulo 2^32 where it is in the integer range (0, 0 where it is not),
\* and the NaN
Wrapped ==
    {
      << Literal(<<"0">>, 0, 0, FALSE), 0, 0 >>,
      << Literal(<<"1">>, 0, 1, FALSE), 0, 1 >>,
      << Literal(<<"2","5","5">>, 0, 255, FALSE), 0, 255 >>,
      << Literal(<<"6","5","5","3","5">>, 0, 65535, FALSE), 0, 65535 >>,
      << Literal(<<"6","5","5","3","6">>, 0, 65536, FALSE), 1, 0 >>,
      << Literal(<<"2","1","4","7","4","8","3","6","4","7">>, 0, INT_MAX, FALSE), 32767, 65535 >>,
      << Literal(<<"2","1","4","7","4","8","3","6","4","8">>, 1, INT_MIN, FALSE), 32768, 0 >>,
      << Literal(<<"3","0","0","0","0","0","0","0","0","0">>, 1, -1294967296, FALSE), 45776, 24064 >>,
      << Literal(<<"4","2","9","4","9","6","7","2","9","5">>, 1, -1, FALSE), 65535, 65535 >>,
      << Literal(<<"&","F","F","F","F","F","F","0","0">>, 1, -256, FALSE), 65535, 65280 >>,
      << Literal(<<"&","1","2","3","4","5">>, 0, 74565, FALSE), 1, 9029 >>,
      << Literal(<<"-","1">>, 0, -1, FALSE), 65535, 65535 >>,
      << Literal(<<"-","2","5","6">>, 0, -256, FALSE), 65535, 65280 >>,
      << Literal(<<"-","6","5","5","3","6">>, 0, -65536, FALSE), 65535, 0 >>,
      << Literal(<<"-","2","1","4","7","4","8","3","6","4","7">>, 0, -INT_MAX, FALSE), 32768, 1 >>,
      << Literal(<<"-","2","1","4","7","4","8","3","6","4","8">>, 0, INT_MIN, FALSE), 32768, 0 >>,
      << Literal(<<"1",".","5">>, 0, 1, TRUE), 0, 1 >>,
      << Literal(<<"-","0",".","5">>, 0, -1, TRUE), 0, 0 >>,
      << Literal(<<"-","1",".","5">>, 0, -2, TRUE), 65535, 65535 >>,
      << Literal(<<"2","1","4","7","4","8","3","6","4","7",".","5">>, 0, INT_MAX, TRUE), 32767, 65535 >>,
      << Literal(<<"4","2","9","4","9","6","7","2","9","6">>, 1, 0, FALSE), 0, 0 >>,
      << Literal(<<"9","9","9","9","9","9","9","9","9","9">>, 2, 1410065407, FALSE), 0, 0 >>,
      << Literal(<<"4","2","9","4","9","6","7","2","9","5",".","5">>, 1, -1, TRUE), 0, 0 >>,
      << Literal(<<"-","2","1","4","7","4","8","3","6","4","9">>, -1, INT_MAX, FALSE), 0, 0 >>,
      << Literal(<<"-","4","2","9","4","9","6","7","2","9","6">>, -1, 0, FALSE), 0, 0 >>,
      << Literal(<<"-","2","1","4","7","4","8","3","6","4","8",".","5">>, -1, INT_MAX, TRUE), 0, 0 >>,
      << NotANumber, 0, 0 >>
    }

WrappedInputs ==
    { Input("wrapped", w, w[1].text, FALSE, FALSE, NoErrno) : w \in Wrapped }

\* chains of one to three prefix operators before a number
PrefixTokens == { "-", "+", ">", "<" }

PrefixChains ==
    { << p >> : p \in PrefixTokens }
    \cup { << p, q >> : p \in PrefixTokens, q \in PrefixTokens }
    \cup { << p, q, r >> : p \in PrefixTokens, q \in PrefixTokens, r \in PrefixTokens }

PrefixOperands == { 1, 300, 4660 }

PrefixInputs ==
    { Input("prefix", << chain, n >>, chain \o DecimalText(n), FALSE, FALSE, NoErrno) :
        chain \in PrefixChains, n \in PrefixOperands }

\* a value, then a value, an open bracket or a function name, with a space or
\* (after a close bracket) nothing between them
AdjacentFirsts == { <<"1">>,
                    <<"(","1",")">>,
                    <<"\"","a","\"">>,
                    <<"V">>,
                    <<"'","A","'">>,
                    <<"H","I","(","1",")">>,
                    <<"1",".","5">> }

AdjacentSeconds == { <<"2">>,
                     <<"(","2",")">>,
                     <<"\"","b","\"">>,
                     <<"V">>,
                     <<"'","B","'">>,
                     <<"S","I","N","(","2",")">>,
                     <<"&","F","F">>,
                     <<"L","E","N","(","\"","a","\"",")">>,
                     <<"[","2","]">>,
                     <<"H","I","(","2",")">> }

AdjacentClosed == { <<"(","1",")">>, <<"H","I","(","1",")">>, <<"[","1","]">> }

AdjacentInputs ==
    { Input("adjacent", << first, second >>, first \o <<" ">> \o second, FALSE, FALSE, NoErrno) :
        first \in AdjacentFirsts, second \in AdjacentSeconds }
    \cup
    { Input("adjacent", << first, second >>, first \o second, FALSE, FALSE, NoErrno) :
        first \in AdjacentClosed, second \in AdjacentSeconds }

\* lines on which a token and a longer token both match at a column, with the
\* handlers run, in the order they are run, and the result
LongestLines ==
    {
      << <<"1","<","=","2">>,
         << "EvalLessThanOrEqual" >>, -1 >>,
      << <<"1","<","<","2">>,
         << "EvalShiftLeft" >>, 4 >>,
      << <<"1","<",">","2">>,
         << "EvalNotEqual" >>, -1 >>,
      << <<"2",">","=","1">>,
         << "EvalMoreThanOrEqual" >>, -1 >>,
      << <<"8",">",">","2">>,
         << "EvalShiftRight" >>, 2 >>,
      << <<"1","=","=","1">>,
         << "EvalEqual" >>, -1 >>,
      << <<"1","<","2">>,
         << "EvalLessThan" >>, -1 >>,
      << <<"2",">","1">>,
         << "EvalMoreThan" >>, -1 >>,
      << <<"1","=","1">>,
         << "EvalEqual" >>, -1 >>,
      << <<"1","<"," ","<","2">>,
         << "EvalLo", "EvalLessThan" >>, -1 >>,
      << <<"1","<"," ",">","2">>,
         << "EvalHi", "EvalLessThan" >>, 0 >>,
      << <<"1",">"," ",">","2">>,
         << "EvalHi", "EvalMoreThan" >>, -1 >>,
      << <<"8",">"," ",">","2">>,
         << "EvalHi", "EvalMoreThan" >>, -1 >>,
      << <<"1","<","<","<","2">>,
         << "EvalLo", "EvalShiftLeft" >>, 4 >>,
      << <<"1","<","=","<","2">>,
         << "EvalLo", "EvalLessThanOrEqual" >>, -1 >>,
      << <<"1","<",">",">","2","5","6">>,
         << "EvalHi", "EvalNotEqual" >>, 0 >>,
      << <<"1",">","=",">","2","5","6">>,
         << "EvalHi", "EvalMoreThanOrEqual" >>, -1 >>,
      << <<"8",">",">",">","2","5","6">>,
         << "EvalHi", "EvalShiftRight" >>, 4 >>,
      << <<"1","=","=","-","1">>,
         << "EvalNegate", "EvalEqual" >>, 0 >>,
      << <<"1","<","-","2">>,
         << "EvalNegate", "EvalLessThan" >>, 0 >>,
      << <<"S","T","R","$","~","(","2","5","5",")","=","S","T","R","$","(","2","5","5",")">>,
         << "EvalStrHex", "EvalStr", "EvalEqual" >>, 0 >>,
      << <<"L","O","(","2","5","8",")","+","L","O","G","(","1",")","+","L","E","N","(","\"","a","\"",")">>,
         << "EvalLo", "EvalLog", "EvalAdd", "EvalLen", "EvalAdd" >>, 3 >>
    }

LongestInputs ==
    { Input("longest", l, l[1], FALSE, FALSE, NoErrno) : l \in LongestLines }

\* the text with the letters at the positions of `lower` in lower case
Cased(text, lower) == [ i \in DOMAIN text |-> IF i \in lower THEN ToLower(text[i]) ELSE text[i] ]

\* the word operators, with 7 op 3
WordOperators ==
    { << <<"A","N","D">>, 3 >>, << <<"O","R">>, 7 >>, << <<"E","O","R">>, 4 >>,
      << <<"D","I","V">>, 2 >>, << <<"M","O","D">>, 1 >> }

\* what follows the operator: the number 3, after a space or not, or the
\* symbol Y, whose value is 3
WordOperands == { <<" ","3">>, <<"3">>, <<"Y">>, <<" ","Y">>, <<"(","3",")">> }

\* the arguments a function is called with
ArgumentsOf(handler) ==
    CASE handler \in { "EvalVal", "EvalEval" } -> <<"\"","1","\"">>
      [] handler \in { "EvalLen", "EvalAsc", "EvalUpper", "EvalLower", "EvalTime" } -> <<"\"","a","\"">>
      [] handler = "EvalMid" -> <<"\"","a","b","c","\"",",","1",",","1">>
      [] handler \in { "EvalLeft", "EvalRight" } -> <<"\"","a","b","c","\"",",","1">>
      [] handler = "EvalString" -> <<"2",",","\"","a","\"">>
      [] handler = "EvalChr" -> <<"6","5">>
      [] OTHER -> <<"1">>

FunctionRows ==
    { i \in DOMAIN m_gaUnaryOperatorTable : Len(m_gaUnaryOperatorTable[i].token) > 1 }

\* the positions in lower case: none, all, and every other one
CasePatterns == { {}, 1 .. 8, { 1, 3, 5, 7 }, { 2, 4, 6, 8 } }

CaseInputs ==
    { Input("word operator", << w, lower, after >>,
            <<"7"," ">> \o Cased(w[1], lower) \o after, FALSE, FALSE, NoErrno) :
        w \in WordOperators, lower \in SUBSET (1 .. 3), after \in WordOperands }
    \cup
    { Input("function", << m_gaUnaryOperatorTable[i], lower >>,
            Cased(m_gaUnaryOperatorTable[i].token, lower)
            \o ArgumentsOf(m_gaUnaryOperatorTable[i].handler) \o <<")">>,
            FALSE, FALSE, NoErrno) :
        i \in FunctionRows, lower \in CasePatterns }
    \cup
    { Input("word example", << text, 1 >>, text, FALSE, FALSE, NoErrno) :
        text \in { <<"1"," ","A","N","D","Y">>, <<"1"," ","a","n","d"," ","3">>,
                   <<"1"," ","A","N","D"," ","3">>, <<"1"," ","A","N","D"," ","Y">> } }

\* string literals: every text of up to three of a letter, a quote and a
\* space, written with its quotes doubled, closed and not closed
QuotedChars == { "a", "\"", " " }

QuotedTexts ==
    { <<>> }
    \cup { << c >> : c \in QuotedChars }
    \cup { << c, d >> : c \in QuotedChars, d \in QuotedChars }
    \cup { << c, d, e >> : c \in QuotedChars, d \in QuotedChars, e \in QuotedChars }

\* character literals, well formed and not
CharLiterals == { "A", "a", "0", " ", "'", "\"", "*", "~" }

MalformedCharLiterals ==
    { <<"'">>, <<"'","A">>, <<"'","'">>, <<"'","A","B","'">>, <<"'","A","\"">>,
      <<"'","A","B">>, <<"'","'"," ","'">>, <<"'","A"," ","'">> }

LiteralInputs ==
    { Input("quoted", << text, after >>, <<"\"">> \o Quoted(text) \o <<"\"">> \o after,
            FALSE, FALSE, NoErrno) :
        text \in QuotedTexts, after \in { <<>>, <<"+","\"","x","\"">> } }
    \cup
    { Input("unquoted", << text >>, <<"\"">> \o Quoted(text), FALSE, FALSE, NoErrno) :
        text \in QuotedTexts }
    \cup
    { Input("unquoted", << text >>, <<"\"","x","\"","+","\"">> \o Quoted(text), FALSE, FALSE, NoErrno) :
        text \in QuotedTexts }
    \cup
    { Input("character", << c, after >>, <<"'", c, "'">> \o after, FALSE, FALSE, NoErrno) :
        c \in CharLiterals, after \in { <<>>, <<"+","1">> } }
    \cup
    { Input("malformed character", << text >>, text, FALSE, FALSE, NoErrno) :
        text \in MalformedCharLiterals }

\* EVAL inside an expression: what stands before the call, the text evaluated,
\* what stands after the call, and how the text ends when it is evaluated
\* alone ("number" with its value, "string", or the exception)
Nested(text, ends, n) == [ text |-> text, ends |-> ends, n |-> n ]

NestedTexts ==
    { Nested(<<"V">>, "number", 5),
      Nested(<<"*">>, "number", GetPC),
      Nested(<<"V","+","*">>, "number", 5 + GetPC),
      Nested(<<"1","+","2">>, "number", 3),
      Nested(<<"(","1","+","2",")","*","3">>, "number", 9),
      Nested(EvalCall(<<"V">>), "number", 5),
      Nested(<<"T">>, "string", 0),
      Nested(<<"U">>, "SymbolNotDefined", 0),
      Nested(EvalCall(<<"U">>), "SymbolNotDefined", 0),
      Nested(<<>>, "EmptyExpression", 0),
      Nested(<<"1",")">>, "MismatchedParentheses", 0),
      Nested(<<"(","1">>, "MismatchedParentheses", 0),
      Nested(<<"1"," ","2">>, "InvalidCharacter", 0),
      Nested(<<"-">>, "MissingValue", 0),
      Nested(<<"1","/","0">>, "DivisionByZero", 0) }

NestedBefores == { <<>>, <<"1","+">>, <<"(">>, <<"2","*","(","1","+">> }

NestedAfters == { <<>>, <<"+","1">>, <<")">> }

NestedInputs ==
    { Input("nested", << before, nested, after >>, before \o EvalCall(nested.text) \o after,
            FALSE, FALSE, NoErrno) :
        before \in NestedBefores, nested \in NestedTexts, after \in NestedAfters }

\* expressions without an operand, and expressions that end on an operator
\* whose operand is missing
BlankLines == { <<>>, <<" ">>, <<" "," ">>, <<",","1">>, <<" ",",">> }

PrefixSigns == { i \in DOMAIN m_gaUnaryOperatorTable :
                   /\ m_gaUnaryOperatorTable[i].handler # NULL
                   /\ Len(m_gaUnaryOperatorTable[i].token) = 1 }

Ending(text, value) == [ text |-> text, value |-> value ]

EndingOperands ==
    { Ending(<<"1">>, IntVal(1)), Ending(<<"0">>, IntVal(0)),
      Ending(<<"\"","a","\"">>, Str(<<"a">>)) }

\* the first operator of `x op1 y op2`
FirstRows ==
    { i \in InfixRows : InfixToken(i) \in { <<"+">>, <<"=">>, <<"*">>, <<"A","N","D">> } }

EndingInputs ==
    { Input("no operand", << line >>, line, allow, FALSE, NoErrno) :
        line \in BlankLines, allow \in BOOLEAN }
    \cup
    { Input("lone prefix", << i >>,
            before \o m_gaUnaryOperatorTable[i].token \o after, FALSE, FALSE, NoErrno) :
        i \in PrefixSigns, before \in { <<>>, <<" ">> }, after \in { <<>>, <<" ">> } }
    \cup
    { Input("ends after infix", << x, i >>, x.text \o <<" ">> \o InfixToken(i) \o after,
            FALSE, FALSE, NoErrno) :
        x \in EndingOperands, i \in InfixRows, after \in { <<>>, <<" ">> } }
    \cup
    { Input("ends after infix", << x, i >>, x.text \o InfixToken(i), FALSE, FALSE, NoErrno) :
        x \in EndingOperands, i \in { r \in InfixRows : ~IsAlpha(InfixToken(r)[1]) } }
    \cup
    { Input("ends after second infix", << x, i, y, j >>,
            Spaced(<< x.text, InfixToken(i), y.text, InfixToken(j) >>), FALSE, FALSE, NoErrno) :
        x \in EndingOperands, i \in FirstRows, y \in EndingOperands, j \in InfixRows }

\* expressions written with round brackets, how they end, and every way of
\* writing some of their brackets square; the `(` that ends a function token
\* is part of the token and stays
Template(text, allow, error, value) ==
    [ text |-> text, allow |-> allow, error |-> error, value |-> value ]

BracketTemplates ==
    { Template(<<"(","1","+","2",")">>, FALSE, "", IntVal(3)),
      Template(<<"2","*","(","3","+","(","4","-","1",")",")">>, FALSE, "", IntVal(12)),
      Template(<<"(","(","1","+","2",")","*","(","3",")",")">>, FALSE, "", IntVal(9)),
      Template(<<"L","E","N","(","T",")">>, FALSE, "", IntVal(2)),
      Template(<<"M","I","D","$","(","T",",","2",",","1",")">>, FALSE, "", Str(<<"b">>)),
      Template(<<"L","E","F","T","$","(","T",",","(","1",")",")">>, FALSE, "", Str(<<"a">>)),
      Template(<<"L","E","N","(","(","T",")",")","+","(","1",")">>, FALSE, "", IntVal(3)),
      Template(<<"1",")">>, FALSE, "MismatchedParentheses", UntrackedNumber),
      Template(<<"1",")">>, TRUE, "", IntVal(1)),
      Template(<<"(","(","1",")">>, FALSE, "MismatchedParentheses", UntrackedNumber),
      Template(<<"(","1",",","2",")">>, FALSE, "ParameterCount", UntrackedNumber),
      Template(<<"L","E","N","(","T",",","T",")">>, FALSE, "ParameterCount", UntrackedNumber) }

\* the brackets of a text that can be written either way
FreeBrackets(text) ==
    { i \in DOMAIN text :
        \/ text[i] = ")"
        \/ text[i] = "(" /\ (i = 1 \/ ~(IsAlpha(text[i - 1]) \/ text[i - 1] = "$")) }

\* the text with the brackets at the positions of `square` written square
WithSquare(text, square) ==
    [ i \in DOMAIN text |->
        IF i \notin square THEN text[i]
        ELSE IF text[i] = "(" THEN "[" ELSE "]" ]

BracketInputs ==
    UNION { { Input("brackets", << t, square >>, WithSquare(t.text, square),
                    t.allow, FALSE, NoErrno) :
                square \in SUBSET FreeBrackets(t.text) } :
            t \in BracketTemplates }

\* lines that end on a syntax error, and a nested evaluation
SyntaxLines == { <<"1"," ","2">>, <<"1",")">>, <<"1","+","2","+","3">>,
                 EvalCall(<<"1">>) }

SyntaxInputs ==
    { Input("syntax", << line >>, line, FALSE, FALSE, NoErrno) : line \in SyntaxLines }

ValueInputs == ConvertInputs \cup BitwiseInputs \cup CompareInputs \cup ShiftInputs \cup DivInputs \cup TypedInputs \cup ByteInputs \cup MathInputs \cup RndInputs \cup SliceInputs \cup StringInputs \cup ChrInputs \cup OrderInputs \cup WrappedInputs \cup PrefixInputs \cup AdjacentInputs \cup LongestInputs \cup CaseInputs \cup LiteralInputs \cup NestedInputs \cup EndingInputs \cup BracketInputs \cup SyntaxInputs

ValueInit ==
    /\ input \in ValueInputs
    /\ frames = << NewFrame(input.line, input.allow) >>
    /\ errno = input.errno
    /\ isFirstPass = input.firstPass
    /\ exception = ""
    /\ order = <<>>

ValueSpec == ValueInit /\ [][Next]_vars

\* the operands of the line
Given(i) == input.parts[i]

\* the call returned the integer n
Returns(n) == Returned /\ exception = "" /\ Result = IntResult(n)

\* the call returned the string s
ReturnsText(s) == Returned /\ exception = "" /\ Result = Str(s)

\* C12 -- integer coercion: INT(v) is accepted iff INT_MIN <= v <= UINT_MAX
\* and raises OutOfIntegerRange otherwise; an accepted integer v <= INT_MAX
\* converts to itself and an accepted integer v > INT_MAX to v - 2^32;
\* `&FFFFFFFF AND &FFFFFFFF` is -1 and `&FF AND &0F` is 15.
C12_IntegerCoercion ==
    /\ Finished /\ input.family = "convert" =>
         IF InIntegerRange(Given(1))
         THEN exception = "" /\ (~Given(1).half => Returns(Given(1).rest))
         ELSE exception = "OutOfIntegerRange"
    /\ Finished /\ input.line = <<"&","F","F","F","F","F","F","F","F"," ","A","N","D"," ",
                                  "&","F","F","F","F","F","F","F","F">> => Returns(-1)
    /\ Finished /\ input.line = <<"&","F","F"," ","A","N","D"," ","&","0","F">> => Returns(15)

\* the same over the finite numbers
C12_FiniteCoercion == (input.family = "convert" /\ Given(1).nan) \/ C12_IntegerCoercion

\* INT(VAL("NAN")) has returned a number: the NaN passed both range tests of
\* ConvertDoubleToInt and was cast to unsigned int
C12_Diverges ==
    /\ input.family = "convert"
    /\ Given(1) = NotANumber
    /\ Returned /\ exception = ""
    /\ Result = IntVal(0)

\* whether the relation holds between the places m and n
Related(relation, m, n) ==
    CASE relation = "eq" -> m = n
      [] relation = "ne" -> m # n
      [] relation = "lt" -> m < n
      [] relation = "le" -> m <= n
      [] relation = "gt" -> m > n
      [] relation = "ge" -> m >= n

\* C13 -- comparisons: on two values of one type each of = == <> != < <= > >=
\* returns -1 when the relation holds and 0 when it does not, so that
\* `(a=b) OR (a<>b)` is -1 and exactly one of a<b, a=b, a>b is -1 (their sum
\* is -1); on a Number and a String they raise TypeMismatch.
C13_Comparisons ==
    /\ Finished /\ input.family = "compare" =>
         IF Given(1).type = Given(3).type
         THEN Returns(IF Related(Given(2).relation, Given(1).rank, Given(3).rank) THEN -1 ELSE 0)
         ELSE exception = "TypeMismatch"
    /\ Finished /\ input.family \in { "either", "one of three" } =>
         IF Given(1).type = Given(2).type THEN Returns(-1) ELSE exception = "TypeMismatch"

\* "A" <= "AB" has returned -1
C13_Witness ==
    /\ input.family = "compare"
    /\ Given(1).text = <<"\"","A","\"">>
    /\ Given(2).token = <<"<","=">>
    /\ Given(3).text = <<"\"","A","B","\"">>
    /\ Returns(-1)

\* 2 * v modulo 2^32, read as a signed 32-bit integer
Doubled(v) ==
    IF v >= 1073741824 THEN 2 * (v + INT_MIN)
    ELSE IF v < -1073741824 THEN 2 * (v - INT_MIN)
    ELSE 2 * v

\* v * 2^s modulo 2^32, read as a signed 32-bit integer
RECURSIVE TimesPowerOfTwo(_, _)
TimesPowerOfTwo(v, s) == IF s = 0 THEN v ELSE TimesPowerOfTwo(Doubled(v), s - 1)

\* floor(v / 2^s), 0 < s <= 31
FloorOfQuotient(v, s) == IF s = 31 THEN (IF v < 0 THEN -1 ELSE 0) ELSE v \div (2 ^ s)

\* what the claim gives for v << s
LeftShifted(v, s) ==
    IF s > 31 \/ s < -31 THEN 0
    ELSE IF s = 0 THEN v
    ELSE IF s > 0 THEN TimesPowerOfTwo(v, s)
    ELSE FloorOfQuotient(v, -s)

\* and for v >> s
RightShifted(v, s) ==
    IF s > 31 \/ s < -31 THEN 0
    ELSE IF s = 0 THEN v
    ELSE IF s > 0 THEN FloorOfQuotient(v, s)
    ELSE TimesPowerOfTwo(v, -s)

\* C14 -- shifts on 32-bit coerced operands v and s: |s| > 31 gives 0, s = 0
\* gives v, `v << s` with 0 < s <= 31 is v * 2^s modulo 2^32 read as signed,
\* `v >> s` with 0 < s <= 31 is floor(v / 2^s), a negative s shifts the other
\* way, and `v >> (-s)` equals `v << s`; `1 << 4` is 16 and `-1 >> 1` is -1.
C14_Shifts ==
    /\ Finished /\ input.family = "shift" =>
         Returns(IF Given(2) = <<"<","<">> THEN LeftShifted(Given(1).rest, Given(3).rest)
                 ELSE RightShifted(Given(1).rest, Given(3).rest))
    /\ Finished /\ input.family = "negated shift" =>
         Returns(LeftShifted(Given(1).rest, Given(2).rest))
    /\ Finished /\ input.line = <<"1"," ","<","<"," ","4">> => Returns(16)
    /\ Finished /\ input.line = <<"-","1"," ",">",">"," ","1">> => Returns(-1)

\* &FFFFFF00 << -4 has returned -16: the literal is coerced to -256 and the
\* negative count shifts it right with the sign extended
C14_Witness ==
    /\ input.family = "shift"
    /\ Given(1).text = <<"&","F","F","F","F","F","F","0","0">>
    /\ Given(2) = <<"<","<">> /\ Given(3).rest = -4
    /\ Returns(-16)

\* the integer a Number known to the model holds
IntegerOf(v) == IF v.tracked THEN v.num ELSE v.wide[1] * 65536 + v.wide[2]

\* r is zero or has the sign of a, and |r| < |b|
IsRemainder(r, a, b) ==
    /\ r = 0 \/ (r > 0 /\ a > 0) \/ (r < 0 /\ a < 0)
    /\ IF b > 0 THEN -b < r /\ r < b ELSE b < r /\ -r > b

\* b divides x
Divides(b, x) ==
    IF b > 0 THEN x % b = 0
    ELSE IF b = INT_MIN THEN x \in { 0, INT_MIN }
    ELSE x % (-b) = 0

\* the call returned an integer the hardware's int can hold (every integer the
\* model's IntegerOf can read is one)
ReturnsInteger == Returned /\ exception = "" /\ Known(Result) /\ Result = IntResult(IntegerOf(Result))

\* C15 -- DIV, MOD and %: a zero divisor raises DivisionByZero; otherwise, for
\* all accepted a and b, `a DIV b` is the quotient truncated toward zero (a
\* representable integer q with a - q * b zero or of the sign of a and smaller
\* than b in magnitude), `a MOD b` is that remainder, and
\* a = (a DIV b) * b + (a MOD b).
C15_DivMod ==
    /\ Finished /\ input.family = "div" =>
         LET a == Given(1).rest
             b == Given(3).rest
         IN  IF b = 0 THEN exception = "DivisionByZero"
             ELSE /\ ReturnsInteger
                  /\ ~(a = INT_MIN /\ b = -1 /\ Given(2) = <<"D","I","V">>)
                  /\ IF Given(2) = <<"D","I","V">>
                     THEN IsRemainder(a - IntegerOf(Result) * b, a, b)
                     ELSE /\ IsRemainder(IntegerOf(Result), a, b)
                          /\ Divides(b, a - IntegerOf(Result))
    /\ Finished /\ input.family = "div and mod" =>
         IF Given(2).rest = 0 THEN exception = "DivisionByZero" ELSE Returns(Given(1).rest)

\* the same, except that nothing is said of INT_MIN and -1
C15_Representable ==
    \/ input.family = "div" /\ Given(1).rest = INT_MIN /\ Given(3).rest = -1
    \/ C15_DivMod

\* -2147483648 DIV -1: the division of the ints has trapped
C15_Diverges ==
    /\ input.family = "div"
    /\ Given(1).text = <<"-","2","1","4","7","4","8","3","6","4","8">>
    /\ Given(2) = <<"D","I","V">>
    /\ Given(3).text = <<"-","1">>
    /\ exception = "ArithmeticTrap"

\* C16 -- typing of arithmetic: `+` adds two Numbers, concatenates two Strings
\* (`"foo" + "bar"` is "foobar") and raises TypeMismatch on a Number and a
\* String in either order; - * / ^ DIV MOD % << >> AND OR EOR raise
\* TypeMismatch if either operand is a String; a result is a Number or a
\* String.
C16_Typing ==
    /\ Finished /\ input.family = "typed" =>
         LET a == Given(1)
             b == Given(3)
         IN  IF Given(2) = <<"+">>
             THEN IF a.type # b.type THEN exception = "TypeMismatch"
                  ELSE IF a.type = NumberValue THEN Returns(a.number + b.number)
                  ELSE ReturnsText(a.string \o b.string)
             ELSE IF a.type = StringValue \/ b.type = StringValue
                  THEN exception = "TypeMismatch"
                  ELSE exception = "" /\ Result.type = NumberValue
    /\ Finished /\ exception = "" => Result.type \in { NumberValue, StringValue }
    /\ Finished /\ input.line = <<"\"","f","o","o","\""," ","+"," ","\"","b","a","r","\"">> => ReturnsText(<<"f","o","o","b","a","r">>)

\* "foo" + "bar" has returned "foobar"
C16_Witness ==
    /\ input.line = <<"\"","f","o","o","\""," ","+"," ","\"","b","a","r","\"">>
    /\ ReturnsText(<<"f","o","o","b","a","r">>)

\* bits 8..15 and bits 0..7 of the two's-complement int n
HighByte(n) == (n % 65536) \div 256
LowByte(n)  == n % 256

\* the operand of a prefix > or < begins with a sign
SignedOperand == Given(1).prefix /\ Head(Given(2).text) = "-"

\* C17 -- for every integer-coercible x, negative x and x above INT_MAX
\* included, HI(x) is (int(x) AND &FFFF) >> 8 and LO(x) is int(x) AND &FF, both
\* in 0..255, HI(x)*256+LO(x) equals x AND &FFFF, and the prefix forms `>x`
\* and `<x` give what HI(x) and LO(x) give.
C17_HiLo ==
    /\ Finished /\ input.family = "byte" =>
         /\ Returns(IF Given(1).high THEN HighByte(Given(2).rest) ELSE LowByte(Given(2).rest))
         /\ IntegerOf(Result) \in 0 .. 255
    /\ Finished /\ input.family = "word" => Returns(Given(1).rest % 65536)

\* the same, except that nothing is said of a prefix form before a sign
C17_HiLoUnsigned == (input.family = "byte" /\ SignedOperand) \/ C17_HiLo

\* >-1 has raised MissingValue: reading the sign executed the stacked > on an
\* empty value stack
C17_Diverges ==
    /\ input.line = <<">","-","1">>
    /\ exception = "MissingValue"
    /\ This.valueStack = <<>>

\* C18 -- error conditions of arithmetic depend on the operands of the call
\* alone: / raises DivisionByZero iff the divisor is 0, SQR ASN ACS LOG LN
\* raise IllegalOperation iff the argument is outside the domain, EXP raises
\* IllegalOperation iff it overflows, ^ raises NumberTooBig on overflow and
\* IllegalOperation on a domain error, and a call on operands in domain and in
\* range returns its result whatever was evaluated before it, in the same
\* expression or an earlier one.
C18_OperandsDecide ==
    /\ Finished /\ input.family = "math" =>
         IF Given(1).error = "" THEN Returns(Given(1).value)
         ELSE exception = Given(1).error
    /\ Finished /\ input.family = "math after" =>
         IF Given(1).error = "" THEN Returned /\ exception = ""
         ELSE exception = Given(1).error

\* the same for a call alone that is entered with errno 0
C18_FromCleanErrno == input.errno = NoErrno /\ input.family = "math" => C18_OperandsDecide

\* VAL("1E999")*0+EXP(0): exp has stored 1 and IllegalOperation is raised on the
\* ERANGE that strtod stored
C18_Diverges ==
    /\ input.family = "math after"
    /\ Given(1).text = <<"E","X","P","(","0",")">>
    /\ exception = "IllegalOperation"
    /\ errno = ERANGE
    /\ Top(This.valueStack) = IntVal(1)

\* the number a literal denotes is below 1, is 1
BelowOne(n) == n.wraps < 0 \/ (n.wraps = 0 /\ n.rest < 1)
IsOne(n)    == n.wraps = 0 /\ n.rest = 1 /\ ~n.half

\* the integer k is below the number the literal n denotes
Below(k, n) ==
    \/ n.wraps > 0
    \/ n.wraps = 0 /\ (k < n.rest \/ (n.half /\ k = n.rest))

\* C19 -- RND(n): n < 1 raises IllegalOperation; n = 1 returns a real r with
\* 0 <= r < 1; for n > 1 and every value the generator can return the result is
\* an integer k with 0 <= k < n.
C19_Rnd ==
    Finished /\ input.family = "rnd" =>
        IF BelowOne(Given(1)) THEN exception = "IllegalOperation"
        ELSE IF IsOne(Given(1))
        THEN /\ Returned /\ exception = "" /\ Result.tracked
             /\ 0 <= Result.num /\ Result.num < Result.den
        ELSE /\ ReturnsInteger
             /\ 0 <= IntegerOf(Result)
             /\ Below(IntegerOf(Result), Given(1))

\* the same for n up to INT_MAX
C19_UpToIntMax == (input.family = "rnd" => Given(1).wraps = 0) => C19_Rnd

\* RND(3000000000) has returned a negative number: the product of n and the
\* fraction was above INT_MAX and was read back as a signed int
C19_Diverges ==
    /\ input.family = "rnd"
    /\ Given(1).text = <<"3","0","0","0","0","0","0","0","0","0">>
    /\ ReturnsInteger
    /\ IntegerOf(Result) < 0

\* the first and the last k bytes of s
FirstBytes(s, k) == SubSeq(s, 1, k)
LastBytes(s, k)  == SubSeq(s, Len(s) - k + 1, Len(s))

SliceOf(name, s, k) == IF name = <<"L","E","F","T","$">> THEN FirstBytes(s, k) ELSE LastBytes(s, k)

\* 0 <= k <= length for the number k a literal denotes
CountInRange(k, length) ==
    k.wraps = 0 /\ k.rest >= 0 /\ (k.rest < length \/ (k.rest = length /\ ~k.half))

\* the int a literal in the integer range is coerced to: the fraction is
\* dropped toward zero, and a number above INT_MAX is read as signed
CoercedCount(k) == IF k.wraps = 0 /\ k.half /\ k.rest < 0 THEN k.rest + 1 ELSE k.rest

\* what the claims share: the type errors, and the two slices that make s
SliceTypesAndSum ==
    /\ Finished /\ input.family = "slice of wrong type" => exception = "TypeMismatch"
    /\ Finished /\ input.family = "slices" =>
         IF Given(2).rest <= Len(Given(1)) THEN ReturnsText(Given(1))
         ELSE exception = "IllegalOperation"

\* C20 as stated -- LEFT$(s, k) and RIGHT$(s, k) raise IllegalOperation unless
\* 0 <= k <= LEN(s) (TypeMismatch if s is not a String or k not a Number); for
\* 0 <= k <= LEN(s) they are the first and the last k bytes of s, and
\* LEFT$(s, k) + RIGHT$(s, LEN(s) - k) is s.
C20_CountInRange ==
    /\ Finished /\ input.family = "slice" =>
         IF CountInRange(Given(3), Len(Given(2)))
         THEN /\ Returned /\ exception = ""
              /\ ~Given(3).half => ReturnsText(SliceOf(Given(1), Given(2), Given(3).rest))
         ELSE exception = "IllegalOperation"
    /\ SliceTypesAndSum

\* C20 -- LEFT$(s, k) and RIGHT$(s, k) raise TypeMismatch if s is not a String
\* or k not a Number; otherwise k is coerced to a 32-bit integer c
\* (OutOfIntegerRange unless INT_MIN <= k <= UINT_MAX, the fraction dropped
\* toward zero, a number above INT_MAX read as signed) and IllegalOperation is
\* raised unless 0 <= c <= LEN(s); then they are the first and the last c bytes
\* of s, and for an integer k with 0 <= k <= LEN(s),
\* LEFT$(s, k) + RIGHT$(s, LEN(s) - k) is s.
C20_CoercedCountInRange ==
    /\ Finished /\ input.family = "slice" =>
         IF ~InIntegerRange(Given(3)) THEN exception = "OutOfIntegerRange"
         ELSE IF CoercedCount(Given(3)) \in 0 .. Len(Given(2))
         THEN ReturnsText(SliceOf(Given(1), Given(2), CoercedCount(Given(3))))
         ELSE exception = "IllegalOperation"
    /\ SliceTypesAndSum

\* RIGHT$("abc", -0.5) has returned "": the count was coerced to 0
C20_Witness ==
    /\ input.family = "slice"
    /\ Given(1) = <<"R","I","G","H","T","$">>
    /\ Given(2) = <<"a","b","c">>
    /\ Given(3).text = <<"-","0",".","5">>
    /\ ReturnsText(<<>>)

\* the text is s taken n times
IsRepeated(text, s, n) ==
    /\ Len(text) = n * Len(s)
    /\ \A i \in 1 .. Len(text) : text[i] = s[((i - 1) % Len(s)) + 1]

\* n >= 0, n < 65536, length < 65536 and n * length < 65536, for an int n and
\* the length of a literal; the product of two numbers below 65536 is below
\* 2^32
StringFits(n, length) ==
    /\ n >= 0 /\ n < 65536 /\ length < 65536
    /\ n * length < 65536

\* what the two claims share: LEN(STRING$(n, s)) for an integer n
StringLength ==
    Finished /\ input.family = "string length" /\ ~Given(1).half /\ InIntegerRange(Given(1)) =>
        IF StringFits(Given(1).rest, Len(Given(2)))
        THEN Returns(Given(1).rest * Len(Given(2)))
        ELSE exception = "IllegalOperation"

\* C21 as stated -- STRING$(n, s) succeeds iff n >= 0, n < 65536,
\* LEN(s) < 65536 and n * LEN(s) < 65536 and raises IllegalOperation otherwise;
\* on success the result is s repeated n times, LEN(STRING$(n, s)) is
\* n * LEN(s) and STRING$(0, s) is the empty string.
C21_StringFits ==
    /\ Finished /\ input.family = "string" =>
         IF Given(1).wraps = 0 /\ StringFits(Given(1).rest, Len(Given(2)))
            /\ ~(Given(1).half /\ Given(1).rest < 0)
         THEN /\ Returned /\ exception = "" /\ Result.type = StringValue /\ Result.tracked
              /\ ~Given(1).half => IsRepeated(Result.str, Given(2), Given(1).rest)
         ELSE exception = "IllegalOperation"
    /\ StringLength

\* C21 -- STRING$(n, s) coerces n to a 32-bit integer c (OutOfIntegerRange
\* unless INT_MIN <= n <= UINT_MAX, the fraction dropped toward zero, a number
\* above INT_MAX read as signed), raises IllegalOperation unless c >= 0,
\* c < 65536, LEN(s) < 65536 and c * LEN(s) < 65536, and otherwise returns s
\* repeated c times, so that LEN(STRING$(n, s)) is c * LEN(s) and STRING$(0, s)
\* is the empty string.
C21_CoercedStringFits ==
    /\ Finished /\ input.family = "string" =>
         IF ~InIntegerRange(Given(1)) THEN exception = "OutOfIntegerRange"
         ELSE IF StringFits(CoercedCount(Given(1)), Len(Given(2)))
         THEN /\ Returned /\ exception = "" /\ Result.type = StringValue /\ Result.tracked
              /\ IsRepeated(Result.str, Given(2), CoercedCount(Given(1)))
         ELSE exception = "IllegalOperation"
    /\ StringLength

\* STRING$(21845, "abc") has returned its 65535 bytes
C21_Witness ==
    /\ input.family = "string"
    /\ Given(1).rest = 21845 /\ Given(2) = <<"a","b","c">>
    /\ Returned /\ exception = ""
    /\ Len(Result.str) = 65535

\* the byte n as the model names it
IsByte(c, n) == n \in 0 .. 255 /\ c = AsciiChar(n) /\ AsciiCode(c) = n

\* C22 -- CHR$(n) returns the one-byte string with byte n for every coerced
\* integer n in [0, 255] and raises IllegalOperation for every other n
\* (CHR$(-1), CHR$(256)); ASC(s) returns the first byte of s as an unsigned
\* value in [0, 255] and raises IllegalOperation for the empty string; hence
\* ASC(CHR$(n)) = n for all n in [0, 255] and CHR$(ASC(s)) = LEFT$(s, 1) for
\* every non-empty s.
C22_ChrAndAsc ==
    /\ Finished /\ input.family = "chr" /\ InIntegerRange(Given(1)) =>
         IF CoercedCount(Given(1)) \in 0 .. 255
         THEN /\ Returned /\ exception = ""
              /\ Result.type = "String" /\ Result.tracked /\ Len(Result.str) = 1
              /\ IsByte(Result.str[1], CoercedCount(Given(1)))
         ELSE exception = "IllegalOperation"
    /\ Finished /\ input.family = "asc of chr" /\ InIntegerRange(Given(1)) =>
         IF CoercedCount(Given(1)) \in 0 .. 255
         THEN Returns(CoercedCount(Given(1)))
         ELSE exception = "IllegalOperation"
    /\ Finished /\ input.family = "asc" =>
         IF Given(1) = <<>> THEN exception = "IllegalOperation"
         ELSE \E n \in 0 .. 255 : Returns(n) /\ IsByte(Given(1)[1], n)
    /\ Finished /\ input.family = "chr of asc" =>
         IF Given(1) = <<>> THEN exception = "IllegalOperation"
         ELSE Returns(-1)

\* ASC(CHR$(200)) is 200
C22_Witness ==
    input.family = "asc of chr" /\ Given(1).text = <<"2","0","0">> /\ Returns(200)

\* the columns at which the atomic values of the line begin
ValueColumns(pieces) ==
    { Len(PiecesText(SubSeq(pieces, 1, i - 1))) : i \in { j \in DOMAIN pieces : pieces[j].value } }

\* the events of the activation the caller made
Outermost(i) == order[i].depth = 1

ValueRead(i) == order[i].what = "GetValue"

\* the calls of EvalRnd, in the order they were made
Draws == SelectSeq(order, LAMBDA e : e.what = "EvalRnd")

\* the columns of the values the outermost activation read before event j
ReadBefore(j) == { order[i].column : i \in { k \in 1 .. j - 1 : Outermost(k) /\ ValueRead(k) } }

\* C23 -- evaluation is left to right in source order: the atomic values (the
\* PC read by `*` and symbol lookups included) are read in the order they
\* appear; the handlers of calls with side effects (RND) run, and so the PRNG
\* is drawn, in the textual order of the calls' closing brackets; and no
\* operator handler runs before every operand that appears to its left in the
\* text has been read.
C23_LeftToRight ==
    /\ \A i, j \in DOMAIN order :
         i < j /\ Outermost(i) /\ Outermost(j) /\ ValueRead(i) => order[i].column < order[j].column
    /\ input.family = "order" =>
         /\ \A j \in DOMAIN order :
              Outermost(j) =>
                ReadBefore(j) = { c \in ValueColumns(Given(1)) : c < order[j].column }
         /\ Returned => ReadBefore(Len(order) + 1) = ValueColumns(Given(1))
         /\ Len(Draws) <= Len(Given(2))
         /\ \A k \in DOMAIN Draws :
              Top(Draws[k].operands) \in { IntVal(n) : n \in Given(2)[k] }
         /\ Returned => Len(Draws) = Len(Given(2))

\* (RND(5)+RND(3))*RND(2) has returned after three draws
C23_Witness ==
    /\ input.family = "order" /\ Given(2) = << {5}, {3}, {2} >>
    /\ Returned /\ exception = "" /\ Len(Draws) = 3

\* what the wrappers do with a result of either type
WrappedTypes ==
    /\ Returned /\ Result.type = StringValue =>
         /\ EvaluateExpressionAsDouble.error = "TypeMismatch"
         /\ \A o \in EvaluateExpressionAsInt : o.error = "TypeMismatch"
         /\ \A o \in EvaluateExpressionAsUnsignedInt : o.error = "TypeMismatch"
         /\ EvaluateExpressionAsString = [error |-> "", string |-> Result]
    /\ Returned /\ Result.type = NumberValue =>
         /\ EvaluateExpressionAsString.error = "TypeMismatch"
         /\ EvaluateExpressionAsDouble = [error |-> "", number |-> Result]

\* C24 as stated -- EvaluateExpressionAsDouble, AsInt and AsUnsignedInt raise
\* TypeMismatch when the expression evaluates to a String, and
\* EvaluateExpressionAsString when it evaluates to a Number; AsInt and
\* AsUnsignedInt apply the integer coercion to the number, so they raise
\* OutOfIntegerRange outside [INT_MIN, UINT_MAX], and AsUnsignedInt returns
\* v mod 2^32 for every accepted integer v (-1 gives 4294967295).
C24_Wrappers ==
    /\ WrappedTypes
    /\ Returned /\ input.family = "wrapped" =>
         IF InIntegerRange(Given(1))
         THEN /\ EvaluateExpressionAsInt = { Converted(CoercedCount(Given(1))) }
              /\ EvaluateExpressionAsUnsignedInt =
                   { [error |-> "", unsigned |-> [high |-> Given(2), low |-> Given(3)]] }
         ELSE /\ \A o \in EvaluateExpressionAsInt : o.error = "OutOfIntegerRange"
              /\ \A o \in EvaluateExpressionAsUnsignedInt : o.error = "OutOfIntegerRange"

\* the same over the finite numbers
C24_FiniteWrappers == (input.family = "wrapped" /\ Given(1).nan) \/ C24_Wrappers

\* the line VAL("NAN") has returned the NaN, and EvaluateExpressionAsInt
\* returns 0 for it
C24_Diverges ==
    /\ input.family = "wrapped" /\ Given(1) = NotANumber
    /\ Returned /\ exception = "" /\ Result = NaN
    /\ Converted(0) \in EvaluateExpressionAsInt

\* the line -1 has returned, and EvaluateExpressionAsUnsignedInt returns
\* 4294967295 for it
C24_MinusOne ==
    /\ input.family = "wrapped" /\ Given(1).text = <<"-","1">>
    /\ Returned /\ exception = ""
    /\ EvaluateExpressionAsUnsignedInt = { [error |-> "", unsigned |-> [high |-> 65535, low |-> 65535]] }

\* the loop condition was evaluated at event i
Boundary(i) == order[i].what = "AdvanceAndCheckEndOfSubStatement"

\* events i <= j of one activation: the activation has not returned between them
SameActivation(i, j) ==
    /\ order[i].depth = order[j].depth
    /\ \A k \in i .. j : order[k].depth >= order[i].depth

\* the activation in frame d is the one of event i
StillActive(i, d) ==
    /\ d \in DOMAIN frames
    /\ order[i].depth = d
    /\ \A k \in i .. Len(order) : order[k].depth >= d

\* C25 -- cursor movement: observed at the boundaries of the loop iterations of
\* EvaluateExpression the cursor never decreases; on successful return it rests
\* on the sub-statement terminator that ended the loop or, when
\* bAllowOneMismatchedCloseBracket is true and an unmatched close bracket ended
\* the parse, on the byte of that close bracket.
C25_CursorMovement ==
    /\ \A i, j \in DOMAIN order :
         i < j /\ Boundary(i) /\ Boundary(j) /\ SameActivation(i, j) =>
            order[i].column <= order[j].column
    /\ \A i \in DOMAIN order : \A d \in DOMAIN frames :
         Boundary(i) /\ StillActive(i, d) /\ frames[d].pc \in {"loop", "purge", "return"} =>
            order[i].column <= frames[d].column
    /\ Returned =>
         LET f == frames[1]
             end == AdvanceAndCheckEndOfSubStatement(f.line, f.column, TRUE)
         IN  IF f.bracketCount < 0
             THEN f.bAllowOneMismatchedCloseBracket /\ OnCloseBracket(f)
             ELSE ~end.more /\ end.column = f.column

\* a parse of three iterations or more was ended by an unmatched close bracket
C25_Witness ==
    /\ Returned
    /\ Cardinality({ i \in DOMAIN order : Boundary(i) }) >= 3
    /\ frames[1].bracketCount < 0
    /\ OnCloseBracket(frames[1])
    /\ frames[1].column > 0

\* p(m) for a prefix operator p
Prefixed(p, m) ==
    CASE p = "-" -> -m
      [] p = "+" -> m
      [] p = ">" -> HighByte(m)
      [] p = "<" -> LowByte(m)

\* p1(p2(...pk(n))) for the chain p1 p2 ... pk
RECURSIVE ChainValue(_, _)
ChainValue(chain, n) ==
    IF chain = <<>> THEN n ELSE Prefixed(Head(chain), ChainValue(Tail(chain), n))

PrefixHandlers == { "EvalNegate", "EvalPosate", "EvalHi", "EvalLo" }

\* a sign somewhere after a > or a < of the chain
SignAfterByteOperator(chain) ==
    \E i, j \in DOMAIN chain : i < j /\ chain[i] \in {">", "<"} /\ chain[j] \in {"-", "+"}

\* the step of the juggling loop of a prefix operator: what is popped has a
\* strictly greater precedence, and the operator is pushed on top of none that has
C26_Step ==
    Running /\ This.pc = "unary" /\ Len(frames') = Len(frames) =>
        /\ Len(This'.operatorStack) < Len(This.operatorStack) =>
              Top(This.operatorStack).precedence > This.thisOp.precedence
        /\ Len(This'.operatorStack) > Len(This.operatorStack) =>
              /\ Top(This'.operatorStack) = This.thisOp
              /\ This.operatorStack # <<>> =>
                    Top(This.operatorStack).precedence <= This.thisOp.precedence

C26_State ==
    /\ Finished /\ input.family = "prefix" => Returns(ChainValue(Given(1), Given(2)))
    /\ \A i \in DOMAIN order :
         input.family = "prefix" /\ order[i].what \in PrefixHandlers => order[i].operands # <<>>

\* C26 as stated -- prefix operators are right-associative and apply to the
\* operand that follows them: when a prefix operator with a handler is read,
\* only stacked operators of strictly greater precedence are popped and executed
\* before it is pushed, and for every chain of prefix operators p1 p2 ... pk
\* (signs at precedence 8, > and < at precedence 10) followed by a value v the
\* result is p1(p2(...pk(v))); a prefix handler is never executed before its own
\* operand has been pushed.
C26_PrefixChains == []C26_State /\ [][C26_Step]_vars

\* the same, except that nothing is said of a chain with a sign after a > or a <
C26_ChainsWithoutSignAfterByteOperator ==
    /\ []((input.family = "prefix" /\ SignAfterByteOperator(Given(1))) \/ C26_State)
    /\ [][C26_Step]_vars

\* every chain with a sign after a > or a < raises MissingValue
C26_SignAfterByteOperator ==
    Finished /\ input.family = "prefix" /\ SignAfterByteOperator(Given(1)) =>
        exception = "MissingValue"

\* -<-300 has raised MissingValue: reading the second sign executed the stacked
\* < on an empty value stack
C26_Diverges ==
    /\ input.family = "prefix"
    /\ Given(1) = <<"-", "<", "-">> /\ Given(2) = 300
    /\ exception = "MissingValue"
    /\ This.valueStack = <<>>
    /\ order[Len(order)].what = "EvalLo"

\* the steps that push a value, push an operator and match a bracket
C27_Step ==
    Running /\ Len(frames') = Len(frames) =>
        /\ Len(This'.valueStack) > Len(This.valueStack) =>
              This.expected = VALUE_OR_UNARY /\ This'.expected = BINARY
        /\ This.pc = "binary" /\ Len(This'.operatorStack) > Len(This.operatorStack) =>
              This.expected = BINARY /\ This'.expected = VALUE_OR_UNARY
        /\ This.pc = "close" /\ This'.pc = "loop" =>
              /\ This.expected = BINARY
              /\ This'.expected = IF This.separator THEN VALUE_OR_UNARY ELSE BINARY
        /\ This.pc \in {"loop", "unary"} /\ Len(This'.operatorStack) > Len(This.operatorStack) =>
              This.expected = VALUE_OR_UNARY /\ This'.expected = VALUE_OR_UNARY

C27_State ==
    /\ Finished /\ input.family = "adjacent" => exception = "InvalidCharacter"
    /\ Finished /\ input.line \in { <<"1"," ","2">>, <<"(","1",")","(","2",")">> } =>
         exception = "InvalidCharacter"

\* C27 -- value/operator alternation: a value is pushed only in state
\* VALUE_OR_UNARY and switches the state to BINARY; an infix operator with a
\* handler or a comma switches back to VALUE_OR_UNARY; an open bracket or prefix
\* operator leaves the state VALUE_OR_UNARY and a matched close bracket leaves
\* it BINARY.  Consequently two values (or a value followed by an open bracket
\* or function name) with no infix token between them raise InvalidCharacter,
\* e.g. `1 2` and `(1)(2)`.
C27_Alternation == []C27_State /\ [][C27_Step]_vars

\* (1)(2) has raised InvalidCharacter in state BINARY, with the value 1 read
C27_Witness ==
    /\ input.line = <<"(","1",")","(","2",")">>
    /\ exception = "InvalidCharacter"
    /\ This.expected = BINARY
    /\ This.valueStack = << IntVal(1) >>

\* s is a proper prefix of t
ProperPrefix(s, t) == Len(s) < Len(t) /\ SubSeq(t, 1, Len(s)) = s

\* in the table, a token that is a proper prefix of another comes after it
LongerFirst(table) ==
    \A i, j \in DOMAIN table : ProperPrefix(table[i].token, table[j].token) => j < i

\* the row matched at the column holds the longest token of the table that
\* matches there
LongestMatch(table, line, column) ==
    LET matchedToken == MatchToken(table, line, column)
    IN  \A i \in DOMAIN table :
            TokenMatches(table[i].token, line, column) =>
                /\ matchedToken # 0
                /\ Len(table[i].token) <= Len(table[matchedToken].token)

\* the handlers run so far, in the order they were run
HandlerEvents ==
    SelectSeq(order, LAMBDA e : e.what \notin { "GetValue", "AdvanceAndCheckEndOfSubStatement" })

HandlersRun == [ i \in DOMAIN HandlerEvents |-> HandlerEvents[i].what ]

\* C28 -- token matching takes the first matching table row, and in both
\* operator tables every token that is a proper prefix of another token of the
\* same table appears after it, so for every input position the matched token
\* is the longest table token that matches there: `1<=2` is parsed as
\* less-or-equal, `1<<2` as shift, `1<>2` as not-equal, never as `<` followed
\* by a prefix operator.
C28_LongestToken ==
    /\ LongerFirst(m_gaBinaryOperatorTable)
    /\ LongerFirst(m_gaUnaryOperatorTable)
    /\ order = <<>> =>
         \A column \in 0 .. Len(input.line) :
            /\ LongestMatch(m_gaBinaryOperatorTable, input.line, column)
            /\ LongestMatch(m_gaUnaryOperatorTable, input.line, column)
    /\ AtLoop =>
         /\ LongestMatch(m_gaBinaryOperatorTable, This.line, Advance.column)
         /\ LongestMatch(m_gaUnaryOperatorTable, This.line, Advance.column)
    /\ Finished /\ input.family = "longest" => Returns(Given(3)) /\ HandlersRun = Given(2)

\* 1<=<2 has returned -1 after EvalLo and EvalLessThanOrEqual
C28_Witness ==
    /\ input.family = "longest" /\ Given(1) = <<"1","<","=","<","2">>
    /\ Returns(-1)
    /\ HandlersRun = << "EvalLo", "EvalLessThanOrEqual" >>

\* C29 -- the word operators AND, OR, EOR, DIV, MOD and all function names are
\* matched case-insensitively, character by character, with no word boundary:
\* in state BINARY an input whose next characters are, ignoring ASCII case, a
\* word-operator token is tokenised as that operator even when an identifier
\* character follows, so `1 ANDY` is `1 AND Y` and `1 and 3` equals `1 AND 3`.
C29_CaseAndWordBoundary ==
    /\ Finished /\ input.family = "word operator" => Returns(Given(1)[2])
    /\ Finished /\ input.family = "word example" => Returns(Given(2))
    /\ Finished /\ input.family = "function" =>
         /\ HandlersRun = << Given(1).handler >>
         /\ Given(1).handler \notin { "EvalTime" } => exception = ""

\* 7 modY has returned 1
C29_Witness ==
    /\ input.family = "word operator"
    /\ input.line = <<"7"," ","m","o","d","Y">>
    /\ Returns(1)

\* the first value of the line has just been read
FirstValueRead ==
    /\ Len(frames) = 1 /\ exception = ""
    /\ Len(order) > 0 /\ order[Len(order)].what = "GetValue"
    /\ Cardinality({ i \in DOMAIN order : order[i].what = "GetValue" }) = 1

\* C30 -- string literal scanning: starting at an opening quote the scanner
\* ends the literal at the first quote that is not immediately followed by
\* another quote, each doubled quote inside contributes exactly one quote to the
\* value, every other byte is copied unchanged, and the cursor ends just past
\* the closing quote; if the line ends before such a closing quote (a line that
\* ends right after a doubled quote, `"abc""`, included) MissingQuote is raised.
\* A char literal must be exactly 'C' (quote, any byte, quote) and consumes
\* three characters, otherwise InvalidCharacter.
C30_Literals ==
    /\ input.family = "quoted" =>
         /\ FirstValueRead =>
              /\ This.valueStack = << Str(Given(1)) >>
              /\ This.column = Len(Quoted(Given(1))) + 2
         /\ Finished =>
              ReturnsText(Given(1) \o (IF Given(2) = <<>> THEN <<>> ELSE <<"x">>))
    /\ Finished /\ input.family = "unquoted" => exception = "MissingQuote"
    /\ Finished /\ input.line = <<"\"","a","b","c","\"","\"">> => exception = "MissingQuote"
    /\ input.family = "character" =>
         /\ FirstValueRead =>
              /\ This.valueStack = << IntVal(AsciiCode(Given(1))) >>
              /\ This.column = 3
         /\ Finished =>
              Returns(AsciiCode(Given(1)) + (IF Given(2) = <<>> THEN 0 ELSE 1))
    /\ Finished /\ input.family = "malformed character" => exception = "InvalidCharacter"

\* the line "a"" "+"x" has returned the text a" x: the second literal was read
\* at column 7, after the six characters of the first and the +
C30_Witness ==
    /\ input.family = "quoted"
    /\ Given(1) = <<"a", "\"", " ">> /\ Given(2) # <<>>
    /\ ReturnsText(<<"a", "\"", " ", "x">>)
    /\ order[2].what = "GetValue" /\ order[2].column = 0
    /\ order[5].what = "GetValue" /\ order[5].column = 7

\* the calls of the family whose brackets match, and what the line is worth
\* when the call is worth n
Surrounded(before, after, n) ==
    IF before = <<>> /\ after = <<>> THEN n
    ELSE IF before = <<"1","+">> /\ after = <<"+","1">> THEN 1 + n + 1
    ELSE IF before = <<"1","+">> /\ after = <<>> THEN 1 + n
    ELSE IF before = <<>> /\ after = <<"+","1">> THEN n + 1
    ELSE IF before = <<"(">> /\ after = <<")">> THEN n
    ELSE IF before = <<"2","*","(","1","+">> /\ after = <<")">> THEN 2 * (1 + n)
    ELSE -1

\* the activation that called EvalEval, when the nested evaluation has
\* returned v
Resumed(f, v) == [f EXCEPT !.valueStack = SetTop(@, v), !.pc = f.resume, !.resume = ""]

\* C31, the steps: the nested activation starts on the text s with
\* empty stacks at column 0, no step of it changes an activation below it, and
\* its return replaces the top value of the caller (the string s) by the nested
\* result and leaves the caller's operator stack, value-stack depth, bracket
\* count and cursor as they were at the call.
C31_Step ==
    [][ LET n == Len(frames)
            m == Len(frames')
        IN  /\ exception = ""
            /\ m \in { n - 1, n, n + 1 }
            /\ \A k \in 1 .. n - 1 : k < m => frames'[k] = frames[k]
            /\ m = n + 1 =>
                 /\ Top(frames'[n].valueStack).type = StringValue
                 /\ frames'[m] = NewFrame(Top(frames'[n].valueStack).str, FALSE)
                 /\ frames'[n].pc = "eval"
                 /\ frames'[n].column = frames[n].column
                 /\ frames'[n].bracketCount = frames[n].bracketCount
                 /\ frames'[n].valueStack = frames[n].valueStack
                 /\ frames'[n].operatorStack =
                        SubSeq(frames[n].operatorStack, 1, Len(frames[n].operatorStack) - 1)
                 /\ exception' = ""
            /\ m = n - 1 =>
                 /\ frames[m].pc = "eval"
                 /\ frames[n].pc = "return"
                 /\ frames'[m] = Resumed(frames[m], frames[n].valueStack[1])
                 /\ frames'[m].operatorStack = frames[m].operatorStack
                 /\ Len(frames'[m].valueStack) = Len(frames[m].valueStack)
                 /\ SubSeq(frames'[m].valueStack, 1, Len(frames[m].valueStack) - 1)
                        = SubSeq(frames[m].valueStack, 1, Len(frames[m].valueStack) - 1)
                 /\ frames'[m].bracketCount = frames[m].bracketCount
                 /\ frames'[m].column = frames[m].column
                 /\ exception' = ""
      ]_vars

\* C31, the states: an activation below the running one waits in EvalEval with
\* the text of the activation above it on top of its value stack, also when the
\* nested evaluation has raised.  The nested evaluation reads the same symbol
\* table and PC (EVAL("V") is V, EVAL("*") is the PC), and however the text
\* ends when it is evaluated alone, the call ends the same way: its value
\* takes the place of the call in the line, its exception is the exception of
\* the line.
C31_State ==
    /\ \A k \in 1 .. Len(frames) - 1 :
         /\ frames[k].pc = "eval"
         /\ Len(frames[k].valueStack) > 0
         /\ Top(frames[k].valueStack) = Str(frames[k + 1].line)
    /\ input.family = "nested" /\ Finished =>
         LET nested == Given(2)
             worth  == Surrounded(Given(1), Given(3), nested.n)
         IN  /\ nested.ends = "number" /\ worth # -1 => Returns(worth)
             /\ nested.ends = "string"
                    /\ << Given(1), Given(3) >> \in { << <<>>, <<>> >>, << <<"(">>, <<")">> >> } =>
                  ReturnsText(SymbolTable[nested.text].str)
             /\ nested.ends \in Exceptions =>
                  /\ exception = nested.ends
                  /\ Len(frames) > 1
                  /\ frames[2].line = nested.text
    /\ input.line = EvalCall(<<"V">>) /\ Finished => Returns(SymbolTable[<<"V">>].num)
    /\ input.line = EvalCall(<<"*">>) /\ Finished => Returns(GetPC)

\* C31 -- EVAL(s) evaluates s in a nested engine with its own value stack,
\* operator stack and cursor: across the call the outer parser's operator
\* stack, value-stack depth, bracket count and cursor are unchanged and only
\* the top value (the string s) is replaced by the nested result; the nested
\* evaluation sees the same symbol table and PC, and any error it raises
\* propagates to the outer caller.
C31_NestedEngine == C31_Step /\ []C31_State

\* `2*(1+EVAL("V+*"))`: the nested evaluation has returned 6405 to a caller
\* that holds two values below the text, three operators and a cursor past the
\* close bracket
C31_Witness ==
    /\ input.line = <<"2","*","(","1","+">> \o EvalCall(<<"V","+","*">>) \o <<")">>
    /\ Len(frames) = 1
    /\ Len(order) > 0 /\ order[Len(order)].what = "EvalAdd" /\ order[Len(order)].depth = 2
    /\ This.valueStack = << IntVal(2), IntVal(1), IntResult(5 + GetPC) >>
    /\ Len(This.operatorStack) = 3
    /\ This.pc = "close"

\* the running activation has consumed no token: its column is past the
\* leading spaces only
NoTokenConsumed(f) == f.column = RunLength(f.line, 1, "space")

BothStacksEmpty(f) == f.valueStack = <<>> /\ f.operatorStack = <<>>

\* the running activation has read a value
HasReadValue ==
    \E i \in DOMAIN order : order[i].what = "GetValue" /\ StillActive(i, Len(frames))

\* the handler that raised, and the values it found
LastHandler == order[Len(order)]

\* how `x op1 y op2` can end: the operator that is executed first finds both
\* values, the other one finds what it left
EndsAfterSecond(op1, op2, x, y) ==
    LET first == IF BinaryPops(op2, op1) THEN op1 ELSE op2
        other == IF BinaryPops(op2, op1) THEN op2 ELSE op1
    IN  UNION { IF o.error # "" THEN { o.error }
                ELSE { q.error : q \in Exec(other.handler, o.vs, o.errno) } :
                o \in Exec(first.handler, << x, y >>, NoErrno) }

\* C32, the part that holds of every expression: no activation returns
\* without having read a value; EmptyExpression is raised exactly by the
\* activation that reaches the end of its loop with both stacks empty, and
\* that activation has consumed no token.
C32_NoOperand ==
    /\ [][ /\ Running /\ This.pc = "purge" /\ BothStacksEmpty(This)
              => exception' = "EmptyExpression"
           /\ exception' = "EmptyExpression"
              => /\ Running /\ This.pc = "purge" /\ BothStacksEmpty(This)
                 /\ frames' = frames ]_vars
    /\ [](/\ Running /\ This.pc = "return" => HasReadValue
          /\ Running /\ This.pc = "purge" /\ BothStacksEmpty(This) => NoTokenConsumed(This)
          /\ exception = "EmptyExpression" =>
               /\ NoTokenConsumed(This) /\ BothStacksEmpty(This) /\ ~HasReadValue
          /\ input.family = "no operand" /\ Finished => exception = "EmptyExpression")

\* a lone prefix operator and a value followed by one infix operator
EndsOnOperator == input.family \in { "lone prefix", "ends after infix" }

\* the handler of the last operator raised MissingValue in the final drain
RaisedInFinalDrain(handler, operands) ==
    /\ exception = "MissingValue"
    /\ This.pc = "purge"
    /\ LastHandler.what = handler
    /\ LastHandler.operands = operands
    /\ This.operatorStack = <<>>

\* C32 -- an expression that supplies no operand never returns a value:
\* EmptyExpression is raised exactly when the terminator is reached with both
\* stacks empty (no token consumed); a lone prefix operator such as `-` and a
\* value followed by one infix operator such as `1 +` raise MissingValue from
\* the handler during the final drain.  A longer expression that ends directly
\* after an infix operator ends with the error of the first handler that
\* fails: MissingValue when every handler that ran before found its operands
\* acceptable (`1 + 1 *`), but DivisionByZero for `1 + 0 /` and TypeMismatch
\* for `"a" = "a" *`, where the last operator takes both operands of the
\* operator before it.
C32_MissingOperand ==
    /\ C32_NoOperand
    /\ [](Finished =>
          /\ input.family = "lone prefix" =>
               RaisedInFinalDrain(m_gaUnaryOperatorTable[Given(1)].handler, <<>>)
          /\ input.family = "ends after infix" =>
               RaisedInFinalDrain(m_gaBinaryOperatorTable[Given(2)].handler, << Given(1).value >>)
          /\ input.family = "ends after second infix" =>
               /\ exception # ""
               /\ exception \in EndsAfterSecond(m_gaBinaryOperatorTable[Given(2)],
                                                m_gaBinaryOperatorTable[Given(4)],
                                                Given(1).value, Given(3).value)
               /\ exception = "MissingValue" => This.pc = "purge"
          /\ input.line = <<"1"," ","+"," ","1"," ","*">> => exception = "MissingValue"
          /\ input.line = <<"1"," ","+"," ","0"," ","/">> => exception = "DivisionByZero"
          /\ input.line = <<"\"","a","\""," ","="," ","\"","a","\""," ","*">> =>
               exception = "TypeMismatch")

\* `1 +` has ended: EvalAdd found one value in the final drain
C32_Witness ==
    /\ input.line = <<"1"," ","+">>
    /\ RaisedInFinalDrain("EvalAdd", << IntVal(1) >>)

\* C32 as it is stated: every expression that ends directly after an infix
\* operator raises MissingValue in the final drain
C32_EveryEndingOperator ==
    /\ C32_NoOperand
    /\ [](Finished /\ (EndsOnOperator \/ input.family = "ends after second infix") =>
            exception = "MissingValue" /\ This.pc = "purge")

\* the rows of both tables that are not special cases, and the rows that are
HandlerRows ==
    { m_gaUnaryOperatorTable[i] : i \in DOMAIN m_gaUnaryOperatorTable }
    \cup { m_gaBinaryOperatorTable[i] : i \in DOMAIN m_gaBinaryOperatorTable }

\* a step of one of the two juggling loops that pops an operator
JugglingPop ==
    /\ Running
    /\ This.pc \in { "unary", "binary" }
    /\ Len(frames') = Len(frames) \/ Len(frames') = Len(frames) + 1
    /\ Len(frames'[Len(frames)].operatorStack) < Len(This.operatorStack)

\* C33, the states: at the start of every loop iteration of
\* EvaluateExpression bracketCount is the number of open-bracket sentinels on
\* the operator stack and is not negative, so the loop condition is told "top
\* level" exactly when no bracket is open.  Every row with a handler has a
\* precedence above the -1 of the sentinels, the condition of neither juggling
\* loop holds with a sentinel on top of the stack, no step of those loops pops
\* a sentinel, and the assertion opHandler != NULL never fails.
C33_State ==
    /\ \A row \in HandlerRows : (row.handler = NULL) = (row.precedence = -1)
    /\ \A row \in HandlerRows : row.handler # NULL => row.precedence >= 0
    /\ Running /\ This.pc \in { "loop", "unary", "binary" } =>
         /\ This.bracketCount = OpenBrackets(This.operatorStack)
         /\ This.bracketCount >= 0
    /\ AtLoop =>
         AdvanceAndCheckEndOfSubStatement(This.line, This.column,
                                          OpenBrackets(This.operatorStack) = 0) = Advance
    /\ Running /\ This.pc = "unary" /\ This.operatorStack # <<>>
         /\ UnaryPops(This.thisOp, Top(This.operatorStack)) =>
            ~IsOpenBracket(Top(This.operatorStack))
    /\ Running /\ This.pc = "binary" /\ This.operatorStack # <<>>
         /\ BinaryPops(This.thisOp, Top(This.operatorStack)) =>
            ~IsOpenBracket(Top(This.operatorStack))
    /\ exception # "AssertionFailed"

\* C33, the steps: what a juggling loop pops is not a sentinel, and the pop
\* leaves the bracket count and the number of sentinels as they were
C33_Step ==
    [][ JugglingPop =>
          /\ ~IsOpenBracket(Top(This.operatorStack))
          /\ OpenBrackets(frames'[Len(frames)].operatorStack) = OpenBrackets(This.operatorStack)
          /\ frames'[Len(frames)].bracketCount = This.bracketCount ]_vars

\* C33 -- bracket-depth invariant: at the start of every loop iteration
\* bracketCount equals the number of open-bracket sentinels on the operator
\* stack and is >= 0; neither juggling loop ever removes a sentinel, so the
\* assertions opHandler != NULL in both loops never fail.
C33_BracketDepth == []C33_State /\ C33_Step

\* an iteration starts inside MaxDepth - 2 open brackets, after a `+` that the
\* binary juggling loop has pushed on the innermost sentinel
C33_Witness ==
    /\ AtLoop
    /\ This.bracketCount = MaxDepth - 2
    /\ OpenBrackets(This.operatorStack) = MaxDepth - 2
    /\ Len(This.operatorStack) = MaxDepth - 1
    /\ Top(This.operatorStack).handler = "EvalAdd"
    /\ IsOpenBracket(This.operatorStack[MaxDepth - 2])
    /\ Advance.more

\* lines through every step of the loop and every way out of it: values,
\* prefix and infix operators, brackets of both kinds, function tokens with
\* one and three parameters, nested evaluations, and each kind of error
TerminationLines ==
    { <<>>, <<"1">>, <<" ","1","*","2","+","3"," ">>, <<"1","+","2","*","3">>,
      <<"-","1">>, <<">","-","1">>, <<"-",">","1">>, <<"1","+">>,
      <<"(","1","+","2",")","*","3">>, <<"[","(","1",")","]">>, <<"(","1">>, <<"1",")">>,
      <<"1"," ","2">>, <<"1","/","0">>, <<"U","+","1">>, <<"V",",","1">>,
      <<"L","E","N","(","T",")","+","1">>, <<"S","I","N","(">>, <<"L","N","(","1",",">>,
      <<"M","I","D","$","(","T",",","1",",","1",")">>, <<"L","E","N","(","1",",","2",")">>,
      EvalCall(<<"1","+","2">>) \o <<"+","1">>, EvalCall(EvalCall(<<"V">>)),
      EvalCall(<<"(","1">>), EvalCall(<<>>) }

TerminationInputs ==
    { Input("termination", << line >>, line, allow, firstPass, NoErrno) :
        line \in TerminationLines, allow \in BOOLEAN, firstPass \in BOOLEAN }

FairInit ==
    /\ input \in TerminationInputs
    /\ frames = << NewFrame(input.line, input.allow) >>
    /\ errno = input.errno
    /\ isFirstPass = input.firstPass
    /\ exception = ""
    /\ order = <<>>

\* EvaluateExpression is sequential code: the step that is enabled is taken
FairSpec == FairInit /\ [][Next]_vars /\ WF_vars(Next)

\* the running activation has just read a function token: the function is on
\* top of the operator stack and a value or unary operator is expected
AtFunctionBracket ==
    /\ AtLoop
    /\ This.expected = VALUE_OR_UNARY
    /\ This.operatorStack # <<>>
    /\ IsFunction(Top(This.operatorStack))

\* consecutive evaluations i < j of the loop condition in one activation
NextIteration(i, j) ==
    /\ i < j /\ Boundary(i) /\ Boundary(j) /\ SameActivation(i, j)
    /\ \A k \in (i + 1) .. (j - 1) : ~(Boundary(k) /\ order[k].depth = order[i].depth)

\* C34, the states: the column at which an iteration starts is beyond the
\* column at which the iteration before it started, and no column is beyond
\* the end of the line; after a function token the cursor is on the `(` of the
\* token, which the unary table matches as the open bracket.
C34_State ==
    /\ \A i, j \in DOMAIN order : NextIteration(i, j) => order[i].column < order[j].column
    /\ \A k \in DOMAIN frames : frames[k].column \in 0 .. Len(frames[k].line)
    /\ AtFunctionBracket =>
         /\ Advance.more
         /\ Advance.column = This.column
         /\ CharAt(This.line, This.column) = "("
         /\ m_gaUnaryOperatorTable[UnaryToken].token = <<"(">>

\* C34, the steps: an iteration that reads a value, an operator or a bracket
\* advances the cursor by at least one character, a function token by its
\* length less one, which is 2 or more; the iteration after a function token
\* pushes the open bracket with the pending comma count and advances by one;
\* every iteration of the final drain loop pops one operator.
C34_Step ==
    [][ LET n == Len(frames)
            f == frames'[n]
        IN  /\ AtLoop /\ Advance.more /\ exception' = "" =>
                /\ Len(frames') = n
                /\ f.column > Advance.column
                /\ f.column <= Len(This.line)
                /\ f.pc = "unary" /\ IsFunction(f.thisOp) =>
                     /\ f.column = Advance.column + Len(f.thisOp.token) - 1
                     /\ Len(f.thisOp.token) - 1 >= 2
                     /\ f.pendingCommaCount = f.thisOp.parameterCount - 1
            /\ AtFunctionBracket /\ exception' = "" =>
                /\ f.column = This.column + 1
                /\ f.operatorStack = Append(This.operatorStack,
                       Op(<<"(">>, -1, Top(This.operatorStack).parameterCount - 1, NULL))
                /\ f.pendingCommaCount = 0
                /\ f.pc = "loop"
            /\ Running /\ This.pc \in { "loop", "unary", "binary", "close" } =>
                /\ Len(frames') >= n
                /\ f.column >= This.column \/ f.pc = "purge"
            /\ Running /\ This.pc = "purge" /\ This.operatorStack # <<>> =>
                /\ Len(frames') >= n
                /\ Len(f.operatorStack) = Len(This.operatorStack) - 1
                /\ f.pc \in { "purge", "eval" }
      ]_vars

ClosingBracket == CharAt(This.line, This.column - 1)

Matching ==
    /\ Running /\ This.pc = "close" /\ ~This.separator
    /\ This.operatorStack # <<>>
    /\ IsOpenBracket(Top(This.operatorStack))

\* C35, the steps and the outcomes: a close bracket `)` or `]` is
\* matched with the nearest open-bracket sentinel on the operator stack
\* whatever its kind.  The step that finds the sentinel pops it and goes on, or
\* raises ParameterCount, by the sentinel's count alone; and an expression
\* ends the same way however its brackets are written: `(1+2]` and `[1+2)` are
\* 3, and an argument list opened with `(` can be closed with `]`.
C35_Step ==
    [][ Matching =>
          LET f == frames'[Len(frames)]
              bracket == Top(This.operatorStack)
          IN  /\ ClosingBracket \in CloseBrackets
              /\ bracket.token \in { <<"(">>, <<"[">> }
              /\ Len(frames') = Len(frames)
              /\ IF bracket.parameterCount # 0 THEN exception' = "ParameterCount"
                 ELSE /\ exception' = ""
                      /\ f = [This EXCEPT !.operatorStack = SubSeq(@, 1, Len(@) - 1),
                                          !.pc = "loop"] ]_vars

C35_State ==
    /\ input.family = "brackets" /\ Finished =>
         Outcome = [error |-> Given(1).error, value |-> Given(1).value]
    /\ input.line = <<"(","1","+","2","]">> /\ Finished => Returns(3)
    /\ input.line = <<"[","1","+","2",")">> /\ Finished => Returns(3)
    /\ input.line = <<"L","E","N","(","T","]">> /\ Finished => Returns(2)
    /\ input.line = <<"M","I","D","$","(","T",",","2",",","1","]">> /\ Finished
         => ReturnsText(<<"b">>)

\* C35 -- bracket kinds are interchangeable: a close bracket is matched with
\* the nearest open-bracket sentinel whatever its kind, `(1+2]` and `[1+2)`
\* both evaluate to 3, and a function argument list opened with `(` may be
\* closed with `]`.
C35_Interchangeable == C35_Step /\ []C35_State

\* `2*(3+[4-1)]` has returned 12: both close brackets were matched with an
\* open bracket of the other kind
C35_Witness ==
    /\ input.line = <<"2","*","(","3","+","[","4","-","1",")","]">>
    /\ Returned
    /\ Result = IntVal(12)

=============================================================================
